---- MODULE Spec2Model ----
(***************************************************************************)
(* The trim normalization engine of scripts/trim_cleaning.py: the text      *)
(* normalizer clean_trim, the validator validate_trim, the per-make         *)
(* processor process_trim_by_make and the pipeline driver process_trim,     *)
(* over a table of listing rows.                                            *)
(***************************************************************************)
EXTENDS Integers, Sequences, FiniteSets, TLC

(***************************************************************************)
(* Python values and strings.  A cell of the trim column, and an argument   *)
(* of clean_trim / validate_trim, is a Python object: a str, None, the      *)
(* float NaN that pandas uses for a missing value, or an int.  Strings are  *)
(* TLA+ strings read character by character with SubSeq.                    *)
(***************************************************************************)
Str(s) == [type |-> "str", v |-> s]
PyNone == [type |-> "NoneType", v |-> ""]
PyNaN == [type |-> "float", v |-> "nan"]
PyInt(digits) == [type |-> "int", v |-> digits]

Ch(s, i) == SubSeq(s, i, i)

Min(S) == CHOOSE x \in S : \A y \in S : x <= y

CharsOf(s) == {Ch(s, i) : i \in 1..Len(s)}

InList(x, list) == \E k \in 1..Len(list) : list[k] = x

\* The cased letters of ASCII and Latin-1, place by place.
UpperChars == "ABCDEFGHIJKLMNOPQRSTUVWXYZÀÁÂÃÄÅÆÇÈÉÊËÌÍÎÏÐÑÒÓÔÕÖØÙÚÛÜÝÞ"
LowerChars == "abcdefghijklmnopqrstuvwxyzàáâãäåæçèéêëìíîïðñòóôõöøùúûüýþ"
Digits == "0123456789"

\* The characters Python's \s, str.strip() and str.split() treat as blank.
Whitespace == {" ", "\t", "\n", "\r", "\f"}

\* The characters the regular expression class \w matches, within Latin-1.
WordChars ==
    CharsOf(UpperChars) \cup CharsOf(LowerChars) \cup CharsOf(Digits)
    \cup {"_", "ß", "ÿ", "ª", "µ", "º"}

UpperSet == CharsOf(UpperChars)

lower_char(c) ==
    IF c \in UpperSet
    THEN Ch(LowerChars, CHOOSE k \in 1..Len(UpperChars) : Ch(UpperChars, k) = c)
    ELSE c

\* s.lower(): every character lowered, the two halves of s one after the other.
RECURSIVE str_lower(_)
str_lower(s) ==
    IF Len(s) <= 1 THEN lower_char(s)
    ELSE str_lower(SubSeq(s, 1, Len(s) \div 2))
         \o str_lower(SubSeq(s, Len(s) \div 2 + 1, Len(s)))

\* str(x) of the Python values above.
py_str(x) ==
    CASE x.type = "str" -> x.v
      [] x.type = "NoneType" -> "None"
      [] x.type = "float" -> x.v
      [] x.type = "int" -> x.v

\* s.find(w) + 1: the first place w occurs in s, 0 when it does not.
str_find(s, w) ==
    LET at == {i \in 1..(Len(s) + 1 - Len(w)) : SubSeq(s, i, i + Len(w) - 1) = w}
    IN  IF at = {} THEN 0 ELSE Min(at)

\* w in s
str_contains(s, w) == str_find(s, w) # 0

Max(S) == CHOOSE x \in S : \A y \in S : x >= y

\* s.lstrip(chars), s.rstrip(chars): drop every leading (trailing) character
\* that is in the set chars.
str_lstrip(s, chars) ==
    LET keep == {i \in 1..Len(s) : Ch(s, i) \notin chars}
    IN  IF keep = {} THEN "" ELSE SubSeq(s, Min(keep), Len(s))
str_rstrip(s, chars) ==
    LET keep == {i \in 1..Len(s) : Ch(s, i) \notin chars}
    IN  IF keep = {} THEN "" ELSE SubSeq(s, 1, Max(keep))

\* s.strip()
str_strip(s) == str_rstrip(str_lstrip(s, Whitespace), Whitespace)

\* s.replace(old, new) for a non-empty old: left to right, non-overlapping.
RECURSIVE str_replace(_, _, _)
str_replace(s, old, new) ==
    LET i == str_find(s, old)
    IN  IF old = "" \/ i = 0 THEN s
        ELSE SubSeq(s, 1, i - 1) \o new
             \o str_replace(SubSeq(s, i + Len(old), Len(s)), old, new)

\* s.split(word, 1)[0]
split_first(s, word) ==
    LET i == str_find(s, word) IN IF i = 0 THEN s ELSE SubSeq(s, 1, i - 1)

\* s.split(): the maximal runs of non-blank characters, in order.
RECURSIVE str_split(_)
str_split(s) ==
    LET t == str_lstrip(s, Whitespace)
        blanks == {i \in 1..Len(t) : Ch(t, i) \in Whitespace}
        e == IF blanks = {} THEN Len(t) ELSE Min(blanks) - 1
    IN  IF t = "" THEN <<>>
        ELSE <<SubSeq(t, 1, e)>> \o str_split(SubSeq(t, e + 1, Len(t)))

\* sep.join(words)
RECURSIVE str_join(_, _)
str_join(sep, words) ==
    IF words = <<>> THEN ""
    ELSE IF Len(words) = 1 THEN words[1]
    ELSE words[1] \o sep \o str_join(sep, Tail(words))

\* \b at the place between character p-1 and character p of s.
IsWordAt(s, p) == p >= 1 /\ p <= Len(s) /\ Ch(s, p) \in WordChars
Boundary(s, p) == IsWordAt(s, p - 1) # IsWordAt(s, p)

\* A Python dict built from a literal of (key, value) pairs, duplicates
\* included: a key keeps the place of its first declaration and the value
\* of its last one.
dict_keys(pairs) ==
    LET first == {k \in 1..Len(pairs) : \A j \in 1..(k - 1) : pairs[j][1] # pairs[k][1]}
        RECURSIVE take(_)
        take(k) == IF k > Len(pairs) THEN <<>>
                   ELSE (IF k \in first THEN <<pairs[k][1]>> ELSE <<>>) \o take(k + 1)
    IN  take(1)

\* key in d
dict_has(pairs, key) == \E k \in 1..Len(pairs) : pairs[k][1] = key

\* A variant that reads the value of the first declaration of the key.
dict_get_first(pairs, key) ==
    pairs[Min({k \in 1..Len(pairs) : pairs[k][1] = key})][2]

\* d[key]
dict_get(pairs, key) ==
    LET last == CHOOSE k \in 1..Len(pairs) :
                    /\ pairs[k][1] = key
                    /\ \A j \in (k + 1)..Len(pairs) : pairs[j][1] # key
    IN  pairs[last][2]
\* clean_trim: words (lines 164-164)
words ==
  <<
    "|", ",", " - ", " w/", "with", "avec", "~", "("
  >>

\* clean_trim: characters_to_remove (lines 168-168) (entries holding a character outside Latin-1, which a TLA+ string cannot hold and no modelled input contains, are left out)
characters_to_remove ==
  <<
    "!", "*", "/", "+", "~", "<", ">", "\"", "®", "\\", ";", "&"
  >>

\* clean_trim: trim_translation_mapping (lines 196-239)
trim_translation_mapping ==
  <<
    <<"e anniversaire", "th anniversary">>, <<"vision climat", "climate vision">>,
    <<"gr. remorquage", "towing package">>, <<"gr.remorquage", "towing package">>,
    <<"disponibilité limited", "limited">>, <<"groupe remorquage", "towing package">>,
    <<"hybride rechargeable", "plug-in hybrid">>, <<"hybride branchable", "plug-in hybrid">>,
    <<"plug in", "plug-in">>, <<"technologie", "technology">>, <<"privilège", "privilege">>,
    <<"tourisme", "touring">>, <<"preffered", "preferred">>, <<"privilégié", "preferred">>,
    <<"executif", "executive">>, <<"électriques", "electric">>, <<"électrique", "electric">>,
    <<"electriques", "electric">>, <<"electrique", "electric">>, <<"automique", "atomic">>,
    <<"autoplot", "autopilot">>, <<"autonomie", "autopilot">>, <<"portes", "door">>,
    <<"confort", "comfort">>, <<"édition", "edition">>, <<"caligraphy", "calligraphy">>,
    <<"s line", "s-line">>, <<"fsport", "f-sport">>, <<"f sport", "f-sport">>,
    <<"luxe", "luxury">>, <<"hybride", "hybrid">>, <<"hayon", "hatchback">>,
    <<"berline", "sedan">>, <<"coupé", "coupe">>, <<"cabriolet", "convertible">>,
    <<"décapotable", "convertible">>, <<"limitée", "limited">>, <<"limité", "limited">>,
    <<"sélect", "select">>, <<"allongé", "crew cab 143.5">>, <<"prem plus", "premium plus">>,
    <<"platine", "platinum">>
  >>

\* clean_trim: complex_words_to_remove (lines 249-253)
complex_words_to_remove ==
  <<
    "( 2 ans inclus)", "$500 finance incentive", "0.99%", "4.49%", "3.99%", "2.99%", "3.39%",
    "4.49%", "5.19%", "1.99%", "5.53%", "gr.electric", "magstoit.ouvrantsieges.chauff",
    "magssieges.chauffbluetooth", "navicuirtoit.ouvrant", "gr.electrique",
    "magscam.reculapple.", "b. h", "taux à partir de", "à partir de", "18po-mags", "o.a.",
    "like-new", "5.99", "drivr.asst", "gr.electrique", "magscam.reculapple.", "gr-electric",
    "4-dr", "5-dr", "b. h", "h- r", "1 an", "o.a.c.", "o.a.", "b h", "®", "à", "b&"
  >>

\* clean_trim: simple_words_to_remove (lines 255-323), without the appended add_unwanted_words
simple_words_to_remove ==
  <<
    "ask us how we can find you a similar vehicle", "premjamais accidentégarantie",
    "10ans200000km", "7 ans 160km", "10ans 200000km", "160 000km",
    "compatible apple carplay et android auto", "drives great", "runs great",
    "sport utility vehicle", "sport utility", "great deal", "buy now",
    "hurry before it sells out", "buy now before it sells out", "advanced driving assistant",
    "groupe electrique complet", "en attente dftapprobation", "as isyou certifyyou save",
    "all credits", "financement disponible", "gr-électrique -ouvrant", "we finance",
    "we approve", "all credit", "heated steering wheel", "5 years 160,000km wrt",
    "disponibilité limited", "compatible et android", "disponibilité limitée",
    "disponibilité limitéd", "full service history", "seul", "un", "gr-électrique",
    "sièges volant chauff", "demarreur a distance", "come and test drive",
    "excellent condition", "convenience package", "ambient light drive", "trades", "welcome",
    "1 seul propriétaire", "spring sale event on now", "spring sale", "traction intégrale",
    "sulev south africa", "garantie prolongée", "vitres électriques", "aide à la conduite",
    "entièrement équipé", "warranty included", "5 years 160,000km", "wireless charging",
    "jantes en alliage", "sièges chauffants", "sieges chauffants", "seul proprietaire",
    "groupe électrique", "camion de travail", "groupe electrique", "panoramic sunroof",
    "heads up display", "air conditioning", "sport appearance", "sieges chauffant",
    "jamais accidenté", "jamais accidente", "volant chauffant", "sièges chauffant",
    "4 roues motrices", "7-passenger", "7-passagers", "app-connect", "8-pass", "7-pass",
    "4-door", "5-door", "s-tronic", "8 pneus", "35th annversary edton", "collision alert",
    "collision detection", "6-speed", "5 speed", "6 speed", "like new", "from oa", "l o",
    "less than 40", "sliding doors", "4 door", "3 door", "2 door", "head-up display",
    "head up display", "all wheel drive", "available as is", "all-wheel drive",
    "convenience pkg", "awdpneus inclus", "siege chauffant", "bas kilométrage",
    "elect cam recul", "caméra de recul", "camera de recul", "bas kilometrage", "bas kilo",
    "ventilés", "groupe electric", "cruise control", "remote starter", "headup display",
    "apple car play", "steering wheel", "w-wing spoiler", "low kilometers", "low kilometres",
    "1 propriétaire", "1 proprietaire", "sxt stow nftgo", "whonda sensing", "banc chauffant",
    "ens commodités", "taux partir de", "panoramic roof", "incoming unit", "adv key",
    "all service records", "full service records", "service records", "services records",
    "bien entretenu", "systeme de", "driver assist", "5 door", "18 wheels", "21 wheels",
    "7 seater", "car play", "groupe comfort", "accident free", "backup camera",
    "harman kardon", "as-is special", "keyless entry", "air condition", "apple carplay",
    "compatible et", "north america", "ambient light", "adaptive crse", "groupe valeur",
    "160,000km wrt", "no luxury tax", "ens commodité", "ens commodite", "gr electrique",
    "écran tactile", "gr électrique", "---vitre elec", "w-li battery", "clean carfax",
    "heated seats", "fully loaded", "no accidents", "single owner", "remote start",
    "7 passengers", "7-seater", "alloy wheels", "sale pending", "blowout sale", "south africa",
    "used vehicle", "wing spoiler", "sound system", "sieges promo", "to your door",
    "toit ouvrant", "groupe élect", "volant chauf", "série de bmw", "app connect",
    "low mileage", "new arrival", "no accident", "cloth seats", "8 passenger", "8 passagers",
    "7 passenger", "7 passagers", "7 passager", "lane assist", "lane departure", "ltd avail",
    "fresh trade", "coming soon", "park assist", "série de bm", "easy trades", "6 passagers",
    "sxt stowngo", "valeur plus", "angle morts", "gr electric", "air ventilé", "bas millage",
    "blue tooth", "backup cam", "push start", "test drive", "-ltd avail", "blind spot",
    "&#174;", "200 000 km", "comme neuf", "ans inclus", "car fax", "7 ans", "financement a",
    "top of line", "cold weather", "vitre electric", "7 sts", "7 ans160km", "vitre elec",
    "off lease", "one owner", "w adv key", "ltd avail", "200 000km", "1 proprio", "new tires",
    "new brakes", "all around", "as traded", "in hearst", "low kmfts", "rec siège",
    "rec siege", "-18ftft", "60 mois", "rég adapt", "voiture à", "cam recul", "18 pouces",
    "19 pouces", "20 pouces", "2 portes", "12m-20", "3 portes", "4 portes", "5 portes",
    "6 pass", "8 pass", "7 pass", "low km", "low kms", "3 year", "w leds", "1 owne", "just in",
    "w heat", "bas km", "10 ans", "4 cyl", "as is", "4 rm", "a c", "24 months", "24 mths",
    "12 months", "12 mths", "36 months", "must see", "electric", "elect", "elec", "model",
    "convertible", "coupe", "1", "carplayandroidauto", "bluetoothcamera", "carplayandroid",
    "androidauto", "certification", "entertainment", "climatisation", "personnalisée",
    "transmission", "automatique", "certifiable", "grade", "lanewatch", "launch", "économique",
    "economique", "compatible", "suspension", "you", "certify", "save", "version", "led",
    "voiture", "8-passenger", "touchscreen", "convenience", "climatiseur", "financement",
    "sieges", "promo", "siéges", "bancs", "banc", "toyota", "panoramique", "7passagers",
    "commodités", "régulateur", "navigation", "commodites", "pneus", "inclus", "proprietaire",
    "propriétaire", "panocaméra", "hatchback", "bluetooth", "available", "automatic",
    "blindspot", "tiptronic", "démarreur", "excellent", "condition", "burmester", "familiale",
    "delivered", "interieur", "adaptatif", "intégrale", "commodité", "commodite", "climatise",
    "certified", "demarreur", "panoramic", "manuelle", "bluetoot", "warranty", "incoming",
    "interior", "adaptive", "pkglexus", "extended", "wireless", "ensemble", "vdpurlen",
    "ventilated", "noire", "reduced", "accident", "approval", "delivery", "arrivage",
    "rapporte", "dfthiver", "distance", "steering", "garantie", "certifie", "certifié",
    "inspecté", "amélioré", "panoroof", "moonroof", "2portes", "berline", "upgrade", "sunroof",
    "1-owner", "massage", "leather", "android", "edition", "reserve", "keyless", "carplay",
    "spoiler", "special", "arrived", "climatisé", "arrival", "financing", "finance", "navigat",
    "vitesse", "located", "pending", "spécial", "complet", "ouvrant", "réserve", "reverse",
    "ventilé", "alertes", "alerte", "alert", "diesel", "carfax", "loaded", "alloys", "cruise",
    "globale", "ready", "brake", "rotors", "prem", "seat", "winter", "tires", "drivr",
    "bluethoot", "brand", "lift", "wheel", "tire", "regul", "white", "360cam", "safety",
    "backup", "remote", "recent", "modèle", "credit", "chauff", "jamais", "heated", "heat",
    "rec", "angles", "volant", "landed", "minuit", "manual", "recule", "manuel", "caméra",
    "camera", "vitres", "sièges", "siège", "sedan", "hayon", "cloth", "hatch", "6pass",
    "7pass", "as-is", "local", "400hp", "567hp", "650hp", "237hp", "audio", "comes", "from",
    "trade", "sound", "adapt", "apple", "power", "clean", "owner", "aucun", "owned", "hurry",
    "seats", "chauf", "group", "hiver", "other", "elect", "recul", "vendu", "siege", "écran",
    "camer", "boîte", "6spd", "auto", "bose", "roof", "500km", "500k", "with", "mint", "rare",
    "4cyl", "very", "wing", "crse", "rear", "just", "sold", "only", "mois", "avec", "deal",
    "sale", "tres", "deux", "leds", "pan", "1ère", "jbl", "this", "new", "front", "brakes",
    "lexus", "cooled", "18po", "10ans", "7ans", "chau", "taux", "fixe", "dispo", "easy",
    "clim", "2016", "2018", "2013", "2017", "2012", "2019", "2020", "2022", "2021", "2014",
    "2015", "2023", "2024", "and", "2011", "2010", "vent", "navi", "cuir", "mags", "toit",
    "sortie", "voie", "pano", "one", "awd", "4wd", "4x4", "rwd", "fwd", "2wd", "2rm", "4rm",
    "4dr", "2dr", "3dr", "5dr", "8sp", "7sp", "sdn", "cpe", "suv", "usb", "aux", "cvt", "hud",
    "pkg", "air", "6sp", "pre", "amp", "oac", "6mt", "mag", "360", "at4", "aut", "man", "dsg",
    "nav", "gps", "dvd", "cam", "cpo", "wow", "woww", "htd", "4d", "hb", "oa", "ac", "ca",
    "ba", "mt", "ti", "ta", "bm", "at", "gr", "w-", "w"
  >>

\* validate_trim: invalid_trims (lines 385-392), without the appended add_invalid_trims
invalid_trims ==
  <<
    "nan", "-", "&", "|", ".", "low", "no", "w", "*", "", "#", "%", "(", "sedan", "cpe",
    "premium package", "manual", "wgn", "360", "air", "&", "bm", "bt", "mt", "i",
    "premium essential", "prem pkg", "1 owner", "one owner", "1", "2", "3", "4", "5", "h",
    "accident free", "headup display", "premium", "clean", "system", "lo", "-free", "et", "en",
    "doors", "car", "pre", "vehicle", "sun", "range", "bluetooth", "sky view roof", "leather",
    "loaded", "incoming", "at", "and", "- premium essential", "- premium enhanced", ". 19",
    ",", ".5 gs", ".5 gx", "- t6", "hatchback", "série de bm"
  >>

\* validate_trim: words_to_check (lines 402-412)
words_to_check ==
  <<
    "low kilometers", "low kilometres", "familiale", "manuelle", "certified", "delivered",
    "excellent", "automatique", "apple", "local", "camera", "nouvel", "backup", "extra",
    "pano", "panoramic", "remote", "rear", "recent", "incoming", "modèle", "nav", "commodité",
    "just", "arrived", "arrival", "sold", "ensemble", "vdpurlen", "édition", "cuir", "navi",
    "panoroof", "toit", "only", "power", "ac", "carfax", "clean", "owner", "accident",
    "finance", "financement", "mois", "commodités", "certification", "credit", "approval",
    "avec", "aucun", "bluetooth", "headup", "owned", "delivery", "deal", "hurry", "chauff",
    "arrivage", "navigat", "jamais", "heated", "seats", "moonroof", "angles", "leather",
    "rapporte", "garantie", "recul", "vitesse", "interieur", "located", "touchscreen", "sale",
    "dfthiver", "volant", "chauf", "ans inclus", ".rec", "morts", "#", "%"
  >>
\* extract_info_from_trim: update_list (lines 64-115): (column, substring, value)
update_list ==
  <<
    <<"bodytype", "sedan", "sedan">>, <<"bodytype", "coupe", "coupe">>,
    <<"bodytype", "hatchback", "hatchback">>, <<"bodytype", "hatch", "hatchback">>,
    <<"bodytype", "hayon", "hatchback">>, <<"bodytype", "2 portes", "coupe">>,
    <<"bodytype", "convertible", "convertible">>, <<"bodytype", "cabriolet", "cabriolet">>,
    <<"fueltype", "diesel", "diesel">>, <<"fueltype", "bluetec", "diesel">>,
    <<"fueltype", "tdi", "diesel">>, <<"fueltype", "hybrid", "hybrid">>,
    <<"fueltype", "hybride", "hybrid">>, <<"fueltype", "hybride branchable", "hybrid">>,
    <<"fueltype", "vehicule electrique", "electric">>,
    <<"fueltype", "electric motor", "electric">>, <<"drivetrain", "4 roues motrices", "AWD">>,
    <<"drivetrain", "all wheel drive", "AWD">>, <<"drivetrain", "quattro", "AWD">>,
    <<"drivetrain", "4 matic", "AWD">>, <<"drivetrain", "4matic", "AWD">>,
    <<"drivetrain", "awd", "AWD">>, <<"drivetrain", "4wd", "AWD">>,
    <<"drivetrain", "dual motor", "AWD">>, <<"drivetrain", "4x4", "AWD">>,
    <<"drivetrain", "all4", "AWD">>, <<"drivetrain", "2wd", "FWD">>,
    <<"drivetrain", "2rm", "FWD">>, <<"drivetrain", "traction intégrale", "AWD">>,
    <<"drivetrain", "traction integrale", "AWD">>, <<"drivetrain", "xdrive", "AWD">>,
    <<"drivetrain", "quattro", "AWD">>, <<"drivetrain", "4motion", "AWD">>,
    <<"drivetrain", "rwd", "RWD">>, <<"drivetrain", "fwd", "FWD">>,
    <<"transmission", "cvt", "auto">>, <<"transmission", "ivt", "auto">>,
    <<"transmission", "dct", "auto">>, <<"transmission", "pdk", "auto">>,
    <<"transmission", "dsg", "auto">>, <<"transmission", "ivt", "auto">>,
    <<"transmission", "s-tronic", "auto">>, <<"transmission", "tiptronic", "auto">>,
    <<"transmission", "6mt", "manual">>, <<"transmission", "manuelle", "manual">>,
    <<"transmission", "manual", "manual">>, <<"transmission", "manuel", "manual">>
  >>

\* process_trim: words_to_remove as assigned at line 615
words_to_remove_bmw ==
  <<
    "xdrive"
  >>

\* process_trim: words_to_remove as assigned at line 652
words_to_remove_audi ==
  <<
    "tiptronic", "s tronic", "quattro"
  >>

\* process_trim: words_to_remove as assigned at line 657
words_to_remove_honda ==
  <<
    "garantie 10 ans 200 000 km", "garantie 10 ans200 000 km", "navicuirtoit.ouvrant",
    "garantie 10 ans", "ouvrant2 cameras", "honda", "ivt", "dct"
  >>

\* process_trim: words_to_remove as assigned at line 693
words_to_remove_porsche ==
  <<
    "pdk", "coupe"
  >>

\* process_trim: words_to_remove as assigned at line 747
words_to_remove_dodge ==
  <<
    "wgn", "cam. de", "i"
  >>

\* process_trim: words_to_remove as assigned at line 767
words_to_remove_hyundai ==
  <<
    "ivt", "dct"
  >>

\* process_trim: words_to_remove as assigned at line 822
words_to_remove_tesla ==
  <<
    "i", "over 30 teslas in stock", "and ready", "wow", "sky view", "glass", "glassroof", "ti",
    "de", "electric"
  >>

\* process_trim: words_to_remove as assigned at line 827
words_to_remove_nissan ==
  <<
    "chauffantsbluetooth", "svmagcamérabancs", "svawdmagcamérabancs",
    "électriquecamérabluetooth", "awdmagcamérabancs", "acgr", "awdtoit", "360gpscuir",
    "slawdcamera 360cuirtoit panomags", "bluetoothregul.vitesseac"
  >>

\* process_trim: words_to_remove as assigned at line 833
words_to_remove_kia ==
  <<
    "jamais accidentégarantie 10 ans200 000km", "jamais accidentégarantie 10 ans200 000km",
    "apple car playgarantie 10ans200 000km", "garantie 10 ans", "ivt", "at", "man", "air",
    "bm", "ba", "gr"
  >>

\* process_trim: words_to_remove as assigned at line 871
words_to_remove_subaru ==
  <<
    "bm", "man", "at", "mag", "man", "super", "weyesight", "w-eyesight", "eyesight", "w-"
  >>

\* process_trim: words_to_remove as assigned at line 897
words_to_remove_mini ==
  <<
    "super", "all4"
  >>

\* process_trim: words_to_remove as assigned at line 907
words_to_remove_cadillac ==
  <<
    "collection"
  >>

\* process_trim: words_to_remove as assigned at line 921
words_to_remove_infiniti ==
  <<
    "proassist"
  >>

\* process_trim: words_to_remove as assigned at line 1017
words_to_remove_mercedes ==
  <<
    "4matic", "4 matic"
  >>

\* process_trim: words_to_remove as assigned at line 1029
words_to_remove_volkswagen ==
  <<
    "w heat sts", "b. spo", "4 motion", "4motion"
  >>

\* process_trim: words_to_remove as assigned at line 1043
words_to_remove_mazda ==
  <<
    "air", "at", "sky"
  >>

\* process_trim: words_to_remove as assigned at line 1047
words_to_remove_mitsubishi ==
  <<
    "s-awc", "awc"
  >>

\* process_trim: words_to_remove as assigned at line 1051
words_to_remove_lexus ==
  <<
    "series"
  >>

\* process_trim: bmw_trim_correction_mapping (lines 606-613)
bmw_trim_correction_mapping ==
  <<
    <<"competition coupe m", "competition m coupe">>, <<"m-sport", "m sport">>,
    <<"msport", "m sport">>, <<"m competition", "competition m">>,
    <<"m-competition", "competition m">>, <<"conv", "convertible">>
  >>

\* process_trim: invalid_bmw_trims (lines 614-614)
invalid_bmw_trims ==
  <<
    "bmw", "prem"
  >>

\* process_trim: toyota_trim_correction_mapping (lines 620-633)
toyota_trim_correction_mapping ==
  <<
    <<"limited pkg", "limited">>, <<"limited hybrid", "hybrid limited">>,
    <<"xle hybrid", "hybrid xle">>, <<"xle hybride", "hybrid xle">>,
    <<"le hybrid", "hybrid le">>, <<"xse hybrid", "hybrid xse">>,
    <<"trd off-road", "trd off road">>, <<"hybride", "hybrid">>, <<"se 6m", "se">>,
    <<"se model", "se">>, <<"-e", "hybrid">>, <<"tech", "technology">>
  >>

\* process_trim: invalid_toyota_trims (lines 635-635)
invalid_toyota_trims ==
  <<
    "wgn", "wgn v6"
  >>

\* process_trim: audi_trim_correction_mapping (lines 639-650)
audi_trim_correction_mapping ==
  <<
    <<"progressiv 2.0 tfsi", "2.0 tfsi progressiv">>,
    <<"technik 3.0 tfsi", "3.0 tfsi technik">>,
    <<"progressiv 3.0 tfsi", "3.0 tfsi progressiv">>,
    <<"progressiv 2.0 tfsi", "2.0 tfsi progressiv">>,
    <<"technik 2.0 tfsi", "2.0 tfsi technik">>, <<"komfort 2.0 tfsi", "2.0 tfsi komfort">>,
    <<"komfort 2.0 tfsi", "2.0 tfsi komfort">>, <<"2.0t qtro", "2.0t">>,
    <<"progressive", "progressiv">>, <<"conv", "convertible">>
  >>

\* process_trim: invalid_audi_trims (lines 651-651)
invalid_audi_trims ==
  <<
    "progressivfinancement a 5.99 60 mois", "komfort gr"
  >>

\* process_trim: invalid_honda_trims (lines 656-656)
invalid_honda_trims ==
  <<
    "lxgarantie 10ans200000km", "2 portes"
  >>

\* process_trim: ford_trim_correction_mapping (lines 662-684)
ford_trim_correction_mapping ==
  <<
    <<"xltsport", "xlt sport">>,
    <<"xlt cabine supercrew 4rm caisse de 6", "xlt supercrew 6.5ft box">>,
    <<"xlt cabine supercrew caisse de 6", "xlt supercrew 6.5ft box">>,
    <<"lariat cabine supercrew caisse de 6", "lariat supercrew 6.5ft box">>,
    <<"lariat cabine supercrew caisse de 5", "lariat supercrew 5.5ft box">>,
    <<"xlt cabine supercrew caisse de 5", "xlt supercrew 5.5ft box">>,
    <<"xlt supercrew 5.5-ft", "xlt supercrew 5.5ft box">>, <<"eco", "ecoboost">>,
    <<"150 lightning-lariat cabine supercrew caisse de 5", "150 lightning-lariat">>,
    <<"150 lightning-xlt cabine supercrew caisse de 5", "150 lightning-xlt supercrew 5.5ft box">>,
    <<"150-lariat cabine supercrew caisse de 5", "150-lariat supercrew 5.5ft box">>,
    <<"150-lariat cabine supercrew caisse de 6", "150-lariat">>,
    <<"150-xlt cabine supercrew caisse de 5", "supercab 145 xlt">>,
    <<"150-xlt cabine supercrew caisse de 6", "150-xlt supercab 6.5ft box">>,
    <<"xlt cabine supercrew caisse de 5 pi", "xlt supercrew 5.5ft box">>,
    <<"conv", "convertible">>, <<"conv v6", "convertible v6">>,
    <<"conv v6 premium", "convertible v6 premium">>, <<"conv gt", "convertible gt">>
  >>

\* process_trim: valid_ford_trims (lines 685-689)
valid_ford_trims ==
  <<
    "se", "xlt", "sel", "titanium", "lariat", "limited", "st", "gt premium", "sport",
    "platinum", "xl", "gt", "big bend", "ecoboost", "titanium hybrid", "xlt supercrew 5.5",
    "ecoboost premium", "outer banks", "ses", "raptor", "badlands", "xlt sport", "king ranch",
    "limited max", "se hatchback"
  >>

\* process_trim: chevrolet_trim_correction_mapping (lines 697-705)
chevrolet_trim_correction_mapping ==
  <<
    <<"silverado custom", "custom">>, <<"reg cab", "regular cab">>,
    <<"custom crew", "custom crew cab">>, <<"dbl crew", "double cab">>,
    <<"crew lt", "crew cab lt">>, <<"cre", "crew cab">>, <<"conv", "convertible">>
  >>

\* process_trim: chrysler_trim_correction_mapping (lines 710-720) (entries holding a character outside Latin-1, which a TLA+ string cannot hold and no modelled input contains, are left out)
chrysler_trim_correction_mapping ==
  <<
    <<"touring l plus", "touring-l plus">>, <<"touring l", "touring-l">>,
    <<"tourisme", "touring">>, <<"300 s", "s">>, <<"300 touring", "touring">>,
    <<"300 c", "c">>, <<"stow nftgo", "stow n go">>, <<"sxt stow nftgo", "sxt stow n go">>
  >>

\* process_trim: dodge_trim_correction_mapping (lines 725-745) (entries holding a character outside Latin-1, which a TLA+ string cannot hold and no modelled input contains, are left out)
dodge_trim_correction_mapping ==
  <<
    <<"canada value pkg", "canada value package">>, <<"cvp", "canada value package">>,
    <<"canada value", "canada value package">>, <<"cvpsxt", "cvp sxt">>,
    <<"groupe valeur canada", "canada value package">>,
    <<"groupe valeur canada", "canada value package">>,
    <<"35th anniversary edition", "35th anniversary">>,
    <<"30th anniversary edition", "30th anniversary">>, <<"sxt stow n'go", "sxt stow n go">>,
    <<"sxt stow & go", "sxt stow n go">>, <<"sxt stow&go", "sxt stow n go">>,
    <<"sxt stowftn go", "sxt stow n go">>, <<"se stow go", "se stow n go">>,
    <<"sxt stow go", "sxt stow n go">>, <<"stow go", "stow n go">>, <<"gtawd", "gt">>,
    <<"r-t", "rt">>, <<"crew", "crew cab">>
  >>

\* process_trim: hyundai_trim_correction_mapping (lines 752-766)
hyundai_trim_correction_mapping ==
  <<
    <<"essentiel", "essential">>, <<"cvp", "canada value package">>, <<"pref", "preferred">>,
    <<"prefered", "preferred">>, <<"preffered", "preferred">>, <<"man l", "l">>,
    <<"man gl", "gl">>, <<"man gls", "gls">>, <<"preferred 2.0l", "2.0l preferred">>,
    <<"preferred 2.0t", "2.0t preferred">>, <<"preferred 2.4", "2.4l preferred">>,
    <<"lux", "luxury">>, <<"preferred electric", "preferred ev">>
  >>

\* process_trim: landrover_trim_correction_mapping (lines 772-775)
landrover_trim_correction_mapping ==
  <<
    <<"hse lux", "hse luxury">>, <<"lux", "luxury">>
  >>

\* process_trim: tesla_trim_correction_mapping (lines 779-818)
tesla_trim_correction_mapping ==
  <<
    <<"rwd", "standard range">>, <<"standard plus", "standard range plus">>,
    <<"long range i awd", "long range dual motor">>,
    <<"long range dual motor awd", "long range dual motor">>,
    <<"long range awd full self drive", "long range dual motor autopilot">>,
    <<"long range full self drive", "long range autopilot">>,
    <<"long range battery", "long range">>,
    <<"standard range plus full self drive", "standard range plus autopilot">>,
    <<"standard range plus pilot", "standard range plus autopilot">>,
    <<"longue autonomie ti", "long range autopilot">>,
    <<"longue autonomie", "long range autopilot">>,
    <<"autonomie standard plus", "standard range plus autopilot">>,
    <<"autonomie standard plus pa", "standard range plus autopilot">>,
    <<"standard range plus autopi", "standard range plus autopilot">>,
    <<"long range 500km autonomie 500k", "long range autopilot">>,
    <<"performance full self drive", "performance autopilot">>,
    <<"long range ltd avail", "long range -ltd avail">>,
    <<"standard range ltd avail", "standard range -ltd avail">>,
    <<"standard", "standard range">>, <<"dual motor long range", "long range dual motor">>,
    <<"dual motor standard range", "standard range dual motor">>,
    <<"long range autonome", "long range autopilot">>,
    <<"autonome standard plus", "standard range plus">>,
    <<"autonome standard plus pa", "standard range plus">>,
    <<"longue autonome", "long range autopilot">>,
    <<"longue autonome t", "long range autopilot">>, <<"sr", "standard range">>,
    <<"pilot", "autopilot">>, <<"dual motor", "long range dual motor">>,
    <<"de performance", "performance dual motor">>,
    <<"standard range plus w autopilot", "standard range plus autopilot">>,
    <<"long range autonomie", "long range autopilot">>, <<"base", "standard range">>,
    <<"long range dual motors", "long range dual motor">>,
    <<"long range pilot", "long range autopilot">>,
    <<"autopilot standard plus", "standard range plus autopilot">>,
    <<"autopilot standard plus pa", "standard range plus autopilot">>,
    <<"longue autopilot", "long range autopilot">>
  >>

\* process_trim: invalid_tesla_trims (lines 820-820)
invalid_tesla_trims ==
  <<
    "model 3", "model s", "model y", "x", "s", "3", "360", "electric", "elect", "lo"
  >>

\* process_trim: ram_trim_correction_mapping (lines 839-859)
ram_trim_correction_mapping ==
  <<
    <<"crew", "crew cab">>, <<"crewcab", " crew cab">>, <<"cre", "crew cab">>,
    <<"cabine quad", "quad cab 140.5 st">>, <<"quad cab 140.5\" st", "quad cab 140.5 st">>,
    <<"laramie crew", "laramie crew cab">>,
    <<"rebel crew 5ft7inch box", "rebel crew 5ft7 box">>, <<"1500", "base">>,
    <<"bighorn", "big horn">>, <<"crew 140.5inch big horn", "crew 140.5 big horn">>,
    <<"crew 140.5inch sport", "crew 140.5 sport">>, <<"crew 140.5inch st", "crew 140.5 st">>,
    <<"express crew 5ft7inch box", "express crew 5ft7 box">>,
    <<"express cabine dftéquipe caisse de 5 pi 7 po", "express crew 5ft7 box">>,
    <<"express crew bte std . night edi", "express night">>,
    <<"longhorn limited", "limited longhorn">>, <<"ltd", "limited">>, <<"reg", "base">>,
    <<"regular", "base">>
  >>

\* process_trim: subaru_trim_correction_mapping (lines 864-870)
subaru_trim_correction_mapping ==
  <<
    <<"2.5i w-touring pkg", "2.5i touring">>, <<"2.5i touring package", "2.5i touring">>,
    <<"3.6r limited package", "3.6r limited">>, <<"tourisme", "touring">>,
    <<"2.5i tourisme", "2.5i touring">>
  >>

\* process_trim: mini_trim_correction_mapping (lines 875-896)
mini_trim_correction_mapping ==
  <<
    <<"jcw", "john cooper works">>, <<"jc", "john cooper works">>, <<"cooper s", "s">>,
    <<"s model", "s">>, <<"cooper", "base">>, <<"hardtop", "base">>, <<"cooper se", "se">>,
    <<"cooper s all4", "s">>, <<"all4 s", "s">>, <<"cooper", "base">>, <<"3 door", "base">>,
    <<"3-door", "base">>, <<"5 door", "base">>, <<"5-door", "base">>, <<"5-door", "base">>,
    <<"classic", "base classic line">>, <<"base classic", "base classic line">>,
    <<"base premier", "base premier line">>, <<"premier", "base premier line">>,
    <<"premier", "base premier line">>
  >>

\* process_trim: cadillac_trim_correction_mapping (lines 902-906)
cadillac_trim_correction_mapping ==
  <<
    <<"luxury 2.0t", "2.0t luxury">>, <<"luxury 2.0l", "2.0l luxury">>, <<"luxe", "luxury">>
  >>

\* process_trim: infiniti_trim_correction_mapping (lines 912-920)
infiniti_trim_correction_mapping ==
  <<
    <<"technology", "tech">>, <<"technologie", "tech">>, <<"sport tech", "sport tech">>,
    <<"sport-tech", "sport tech">>, <<"premium-tech", "premium tech">>,
    <<"premium tech", "premium tech">>, <<"essentiel", "essential">>
  >>

\* process_trim: invalid_infiniti_trims (lines 922-922)
invalid_infiniti_trims ==
  <<
    "qx60", "sun", "ti", "i", "utility", "safety"
  >>

\* process_trim: mercedes_trim_correction_mapping (lines 926-1016)
mercedes_trim_correction_mapping ==
  <<
    <<"c 300", "c300">>, <<"c 300 4 matic", "c300">>, <<"c 300 coupe", "c300 coupe">>,
    <<"c 300 wagon", "c300 wagon">>, <<"c 300 amg", "c300 amg">>, <<"c 450 amg", "c450 amg">>,
    <<"c 400", "c400">>, <<"c 350", "c350">>, <<"c 250", "c250">>, <<"amg c 43", "c43 amg">>,
    <<"c 43 amg", "c43 amg">>, <<"c 63 amg", "c63 amg">>, <<"glc 300", "glc300">>,
    <<"glc 300 premium", "glc300 premium">>, <<"glc 300 coupe", "glc300 coupe">>,
    <<"glc 300 amg", "glc300 amg">>, <<"glc 350e", "glc350e">>, <<"amg glc 43", "amg glc 43">>,
    <<"gle 400", "gle400">>, <<"gle 450", "gle450">>, <<"gle 350", "gle350">>,
    <<"gle 350d", "gle350d">>, <<"cla 250", "cla250">>, <<"cla 250 amg", "cla250 amg">>,
    <<"cla 250 coupe", "cla250 coupe">>, <<"gla 250", "gla250">>,
    <<"gla 250 4 matic", "gla250">>, <<"gla 45 amg", "gla45 amg">>, <<"e 300", "e300">>,
    <<"e 400", "e400">>, <<"e 350", "e350">>, <<"e 250 bluetec", "e250 bluetec">>,
    <<"e 550", "e550">>, <<"e 450", "e450">>, <<"e 400 coupe", "e400 coupe">>,
    <<"e 53 amg", "e53 amg">>, <<"a 250", "a250">>, <<"a 250 premium", "a250 premium">>,
    <<"a 220", "a220">>, <<"b 250 routière sport", "b250 sports tourer">>,
    <<"b 250 sports tourer", "b250 sports tourer">>, <<"b 250", "b250">>, <<"s 550", "s550">>,
    <<"s 550 lwb", "s550 lwb">>, <<"s 560", "s560">>, <<"s 580", "s580">>,
    <<"amg s 63", "s63 amg">>, <<"glk 250 bluetec", "glk250 bluetec">>,
    <<"glk 350", "glk350">>, <<"gls 450", "gls450">>, <<"gls 550", "gls550">>,
    <<"ml 350 bluetec", "ml350 bluetec">>, <<"ml 350", "ml350">>, <<"g 550", "g550">>,
    <<"c 300", "c300">>, <<"c 300 sport", "c300 sport">>, <<"c 43 amg", "c43 amg">>,
    <<"c 43 amg premium", "c43 amg premium">>, <<"cla 45 amg", "cla45 amg">>,
    <<"cls 550", "cls550">>, <<"e 400", "e400">>, <<"g 63 amg", "g63 amg">>,
    <<"gl 350 bluetec", "gl350 bluetec">>, <<"glb 250", "glb250">>,
    <<"glc 43 amg", "glc43 amg">>, <<"gle 450 amg", "gle450 amg">>, <<"gle 53", "gle53">>,
    <<"gls 450 amg", "gls450 amg">>, <<"ml 63 amg", "ml63 amg">>, <<"amg g 63", "g63 amg">>,
    <<"amg a 35", "amg a35">>, <<"amg c 43", "amg c43">>,
    <<"amg c 43 coupe", "amg c43 coupe">>, <<"amg c43", "amg c43">>,
    <<"amg cls 53", "amg cls53">>, <<"amg cls 53 coupe", "amg cls53 coupe">>,
    <<"amg cls 63 s", "amg cls63 s">>, <<"amg e 43", "amg e43">>, <<"amg e 53", "amg e53">>,
    <<"amg gla 35", "amg gla35">>, <<"amg gla 45", "amg gla45">>,
    <<"amg glc 43", "amg glc43">>, <<"amg glc 43 coupe", "amg glc43 coupe">>,
    <<"amg glc 63 s", "amg glc63 s">>, <<"amg gle 43", "amg gle43">>,
    <<"amg gle 43 coupe", "amg gle43 coupe">>, <<"amg gle 53", "amg gle53">>,
    <<"amg gle 63 s", "amg gle63 s">>, <<"amg gls 63", "amg gls63">>
  >>

\* process_trim: gmc_trim_correction_mapping (lines 1021-1024)
gmc_trim_correction_mapping ==
  <<
    <<"reg", "regular">>, <<"cre", "crew cab">>
  >>

\* process_trim: mazda_trim_correction_mapping (lines 1033-1042)
mazda_trim_correction_mapping ==
  <<
    <<"gt wturbo", "gt turbo">>, <<"gt w-turbo", "gt turbo">>, <<"gs-sky", "gs">>,
    <<"sport gs-sky", "sport gs">>, <<"gt-sky", "gt">>, <<"gx-sky", "gx">>, <<"gtawd", "gt">>,
    <<"conv gt", "gt convertible">>
  >>

\* process_trim: other_makes (lines 1057-1057)
other_makes ==
  <<
    "jeep", "lincoln", "volvo"
  >>
(***************************************************************************)
(* The calls of process_trim_by_make that process_trim makes, in order.     *)
(* An argument that is None is the empty tuple; valid_trims is None, the    *)
(* string "auto" or a list.                                                 *)
(***************************************************************************)
\* process_trim_by_make: the default of unknown_threshold (line 500)
unknown_threshold_default == 4
\* process_trim: the unknown_threshold passed for ram (line 861)
unknown_threshold_ram == 4

\* process_trim: other_makes (line 1057) is looped over at lines 1058-1059;
\* its three calls close the list.
make_calls ==
  <<
    [make |-> "bmw",   \* line 616
     trim_correction_mapping |-> bmw_trim_correction_mapping,
     valid_trims |-> [kind |-> "auto", list |-> <<>>],
     add_unwanted_words |-> words_to_remove_bmw,
     add_invalid_trims |-> invalid_bmw_trims,
     unknown_threshold |-> unknown_threshold_default],
    [make |-> "toyota",   \* line 636
     trim_correction_mapping |-> toyota_trim_correction_mapping,
     valid_trims |-> [kind |-> "None", list |-> <<>>],
     add_unwanted_words |-> <<>>,
     add_invalid_trims |-> invalid_toyota_trims,
     unknown_threshold |-> unknown_threshold_default],
    [make |-> "audi",   \* line 653
     trim_correction_mapping |-> audi_trim_correction_mapping,
     valid_trims |-> [kind |-> "None", list |-> <<>>],
     add_unwanted_words |-> words_to_remove_audi,
     add_invalid_trims |-> invalid_audi_trims,
     unknown_threshold |-> unknown_threshold_default],
    [make |-> "honda",   \* line 659
     trim_correction_mapping |-> <<>>,
     valid_trims |-> [kind |-> "None", list |-> <<>>],
     add_unwanted_words |-> words_to_remove_honda,
     add_invalid_trims |-> invalid_honda_trims,
     unknown_threshold |-> unknown_threshold_default],
    [make |-> "ford",   \* line 690
     trim_correction_mapping |-> ford_trim_correction_mapping,
     valid_trims |-> [kind |-> "list", list |-> valid_ford_trims],
     add_unwanted_words |-> <<>>,
     add_invalid_trims |-> <<>>,
     unknown_threshold |-> unknown_threshold_default],
    [make |-> "porsche",   \* line 694
     trim_correction_mapping |-> <<>>,
     valid_trims |-> [kind |-> "None", list |-> <<>>],
     add_unwanted_words |-> words_to_remove_porsche,
     add_invalid_trims |-> <<>>,
     unknown_threshold |-> unknown_threshold_default],
    [make |-> "chevrolet",   \* line 707
     trim_correction_mapping |-> chevrolet_trim_correction_mapping,
     valid_trims |-> [kind |-> "None", list |-> <<>>],
     add_unwanted_words |-> words_to_remove_porsche,
     add_invalid_trims |-> <<>>,
     unknown_threshold |-> unknown_threshold_default],
    [make |-> "chrysler",   \* line 722
     trim_correction_mapping |-> chrysler_trim_correction_mapping,
     valid_trims |-> [kind |-> "auto", list |-> <<>>],
     add_unwanted_words |-> <<>>,
     add_invalid_trims |-> <<>>,
     unknown_threshold |-> unknown_threshold_default],
    [make |-> "dodge",   \* line 749
     trim_correction_mapping |-> dodge_trim_correction_mapping,
     valid_trims |-> [kind |-> "auto", list |-> <<>>],
     add_unwanted_words |-> words_to_remove_dodge,
     add_invalid_trims |-> <<>>,
     unknown_threshold |-> unknown_threshold_default],
    [make |-> "hyundai",   \* line 769
     trim_correction_mapping |-> hyundai_trim_correction_mapping,
     valid_trims |-> [kind |-> "auto", list |-> <<>>],
     add_unwanted_words |-> words_to_remove_hyundai,
     add_invalid_trims |-> <<>>,
     unknown_threshold |-> unknown_threshold_default],
    [make |-> "land rover",   \* line 776
     trim_correction_mapping |-> landrover_trim_correction_mapping,
     valid_trims |-> [kind |-> "auto", list |-> <<>>],
     add_unwanted_words |-> <<>>,
     add_invalid_trims |-> <<>>,
     unknown_threshold |-> unknown_threshold_default],
    [make |-> "tesla",   \* line 824
     trim_correction_mapping |-> tesla_trim_correction_mapping,
     valid_trims |-> [kind |-> "auto", list |-> <<>>],
     add_unwanted_words |-> words_to_remove_tesla,
     add_invalid_trims |-> invalid_tesla_trims,
     unknown_threshold |-> unknown_threshold_default],
    [make |-> "nissan",   \* line 830
     trim_correction_mapping |-> <<>>,
     valid_trims |-> [kind |-> "auto", list |-> <<>>],
     add_unwanted_words |-> words_to_remove_nissan,
     add_invalid_trims |-> <<>>,
     unknown_threshold |-> unknown_threshold_default],
    [make |-> "kia",   \* line 836
     trim_correction_mapping |-> <<>>,
     valid_trims |-> [kind |-> "auto", list |-> <<>>],
     add_unwanted_words |-> words_to_remove_kia,
     add_invalid_trims |-> <<>>,
     unknown_threshold |-> unknown_threshold_default],
    [make |-> "ram",   \* line 861
     trim_correction_mapping |-> ram_trim_correction_mapping,
     valid_trims |-> [kind |-> "auto", list |-> <<>>],
     add_unwanted_words |-> <<>>,
     add_invalid_trims |-> <<>>,
     unknown_threshold |-> unknown_threshold_ram],
    [make |-> "subaru",   \* line 872
     trim_correction_mapping |-> subaru_trim_correction_mapping,
     valid_trims |-> [kind |-> "auto", list |-> <<>>],
     add_unwanted_words |-> words_to_remove_subaru,
     add_invalid_trims |-> <<>>,
     unknown_threshold |-> unknown_threshold_default],
    [make |-> "mini",   \* line 899
     trim_correction_mapping |-> mini_trim_correction_mapping,
     valid_trims |-> [kind |-> "auto", list |-> <<>>],
     add_unwanted_words |-> words_to_remove_mini,
     add_invalid_trims |-> <<>>,
     unknown_threshold |-> unknown_threshold_default],
    [make |-> "cadillac",   \* line 909
     trim_correction_mapping |-> cadillac_trim_correction_mapping,
     valid_trims |-> [kind |-> "auto", list |-> <<>>],
     add_unwanted_words |-> words_to_remove_cadillac,
     add_invalid_trims |-> <<>>,
     unknown_threshold |-> unknown_threshold_default],
    [make |-> "infiniti",   \* line 923
     trim_correction_mapping |-> infiniti_trim_correction_mapping,
     valid_trims |-> [kind |-> "auto", list |-> <<>>],
     add_unwanted_words |-> words_to_remove_infiniti,
     add_invalid_trims |-> invalid_infiniti_trims,
     unknown_threshold |-> unknown_threshold_default],
    [make |-> "mercedes-benz",   \* line 1018
     trim_correction_mapping |-> mercedes_trim_correction_mapping,
     valid_trims |-> [kind |-> "auto", list |-> <<>>],
     add_unwanted_words |-> words_to_remove_mercedes,
     add_invalid_trims |-> <<>>,
     unknown_threshold |-> unknown_threshold_default],
    [make |-> "gmc",   \* line 1026
     trim_correction_mapping |-> gmc_trim_correction_mapping,
     valid_trims |-> [kind |-> "auto", list |-> <<>>],
     add_unwanted_words |-> <<>>,
     add_invalid_trims |-> <<>>,
     unknown_threshold |-> unknown_threshold_default],
    [make |-> "volkswagen",   \* line 1030
     trim_correction_mapping |-> <<>>,
     valid_trims |-> [kind |-> "auto", list |-> <<>>],
     add_unwanted_words |-> words_to_remove_volkswagen,
     add_invalid_trims |-> <<>>,
     unknown_threshold |-> unknown_threshold_default],
    [make |-> "mazda",   \* line 1044
     trim_correction_mapping |-> mazda_trim_correction_mapping,
     valid_trims |-> [kind |-> "auto", list |-> <<>>],
     add_unwanted_words |-> words_to_remove_mazda,
     add_invalid_trims |-> <<>>,
     unknown_threshold |-> unknown_threshold_default],
    [make |-> "mitsubishi",   \* line 1048
     trim_correction_mapping |-> <<>>,
     valid_trims |-> [kind |-> "auto", list |-> <<>>],
     add_unwanted_words |-> words_to_remove_mitsubishi,
     add_invalid_trims |-> <<>>,
     unknown_threshold |-> unknown_threshold_default],
    [make |-> "lexus",   \* line 1052
     trim_correction_mapping |-> <<>>,
     valid_trims |-> [kind |-> "auto", list |-> <<>>],
     add_unwanted_words |-> words_to_remove_lexus,
     add_invalid_trims |-> <<>>,
     unknown_threshold |-> unknown_threshold_default],
    [make |-> "jeep",   \* line 1059
     trim_correction_mapping |-> <<>>,
     valid_trims |-> [kind |-> "auto", list |-> <<>>],
     add_unwanted_words |-> <<>>,
     add_invalid_trims |-> <<>>,
     unknown_threshold |-> unknown_threshold_default],
    [make |-> "lincoln",   \* line 1059
     trim_correction_mapping |-> <<>>,
     valid_trims |-> [kind |-> "auto", list |-> <<>>],
     add_unwanted_words |-> <<>>,
     add_invalid_trims |-> <<>>,
     unknown_threshold |-> unknown_threshold_default],
    [make |-> "volvo",   \* line 1059
     trim_correction_mapping |-> <<>>,
     valid_trims |-> [kind |-> "auto", list |-> <<>>],
     add_unwanted_words |-> <<>>,
     add_invalid_trims |-> <<>>,
     unknown_threshold |-> unknown_threshold_default]
  >>

(***************************************************************************)
(* The text normalizer and the validator.                                   *)
(***************************************************************************)

\* re.sub(r'\s+', ' ', input_string): a blank that follows a blank gives
\* nothing, any other blank gives one space; squeeze is the text of places a..b.
RECURSIVE squeeze(_, _, _)
squeeze(s, a, b) ==
    IF a > b THEN ""
    ELSE IF a = b
    THEN (IF Ch(s, a) \notin Whitespace THEN Ch(s, a)
          ELSE IF a > 1 /\ Ch(s, a - 1) \in Whitespace THEN "" ELSE " ")
    ELSE squeeze(s, a, (a + b) \div 2) \o squeeze(s, (a + b) \div 2 + 1, b)
remove_extra_spaces(input_string) == squeeze(input_string, 1, Len(input_string))

\* The words of the string in order, every word kept at its first place only.
remove_duplicate_words(input_string) ==
    LET ws == str_split(input_string)
        RECURSIVE keep(_)
        keep(k) ==
            IF k > Len(ws) THEN <<>>
            ELSE (IF \E j \in 1..(k - 1) : ws[j] = ws[k] THEN <<>> ELSE <<ws[k]>>)
                 \o keep(k + 1)
    IN  str_join(" ", keep(1))

\* A variant that cuts at the listed word that occurs first in s.
truncate_at_earliest_word(s, ws) ==
    LET hits == {k \in 1..Len(ws) : str_contains(s, ws[k])}
    IN  IF hits = {} THEN s
        ELSE LET first == Min({str_find(s, ws[k]) : k \in hits})
             IN  str_strip(SubSeq(s, 1, first - 1))

\* Cut at the first occurrence of the first listed word that occurs at all.
truncate_after_words(s, ws) ==
    LET hits == {k \in 1..Len(ws) : str_contains(s, ws[k])}
    IN  IF hits = {} THEN s ELSE str_strip(split_first(s, ws[Min(hits)]))

\* for old in olds[from..]: s = s.replace(old, new).  A listed string that
\* does not occur leaves s as it is, so the loop goes from one hit to the next.
RECURSIVE replace_each(_, _, _, _)
replace_each(s, olds, new, from) ==
    LET hits == {k \in from..Len(olds) : str_contains(s, olds[k])}
    IN  IF hits = {} THEN s
        ELSE replace_each(str_replace(s, olds[Min(hits)], new), olds, new, Min(hits) + 1)

\* The keys of the translation dict, in the order the pattern joins them.
trim_translation_keys == dict_keys(trim_translation_mapping)

\* A variant that leaves only the last of the keys that match at place i.
last_key_at(s, i, keys) ==
    LET hits == {k \in 1..Len(keys) :
                    /\ i + Len(keys[k]) - 1 <= Len(s)
                    /\ SubSeq(s, i, i + Len(keys[k]) - 1) = keys[k]}
    IN  IF hits = {} THEN {} ELSE {Max(hits)}

\* The keys that match the text of s at place i.
keys_at(s, i, keys) ==
    {k \in 1..Len(keys) :
        /\ i + Len(keys[k]) - 1 <= Len(s)
        /\ SubSeq(s, i, i + Len(keys[k]) - 1) = keys[k]}

\* pattern.sub over "|".join(keys): one scan from the left; at the first place
\* where a key matches, the first such key (in key order) is replaced and the
\* scan goes on after it, never over replaced text.
RECURSIVE translate_string(_, _, _)
translate_string(s, keys, translations) ==
    LET starts == {i \in 1..Len(s) : keys_at(s, i, keys) # {}}
    IN  IF starts = {} THEN s
        ELSE LET i == Min(starts)
                 key == keys[Min(keys_at(s, i, keys))]
             IN  SubSeq(s, 1, i - 1) \o dict_get(translations, key)
                 \o translate_string(SubSeq(s, i + Len(key), Len(s)), keys, translations)

simple_words_set == {simple_words_to_remove[k] : k \in DOMAIN simple_words_to_remove}

\* The place of a word in simple_words_to_remove + add_unwanted_words.
simple_word_index(w, add_unwanted_words) ==
    IF w \in simple_words_set
    THEN Min({k \in DOMAIN simple_words_to_remove : simple_words_to_remove[k] = w})
    ELSE Len(simple_words_to_remove)
         + Min({k \in DOMAIN add_unwanted_words : add_unwanted_words[k] = w})

\* The places j where a listed word that starts at place i of s ends, with
\* a word boundary before i and after j.
simple_word_ends(s, i, add_unwanted_words) ==
    IF Boundary(s, i)
    THEN {j \in i..Len(s) :
            /\ Boundary(s, j + 1)
            /\ \/ SubSeq(s, i, j) \in simple_words_set
               \/ InList(SubSeq(s, i, j), add_unwanted_words)}
    ELSE {}

\* re.sub(r'\b(?:w1|w2|...)\b', '', s) from place i on: at the first place
\* where a listed word matches between word boundaries, the first such word
\* (in list order) is removed and the scan goes on after it, over the text
\* as it was before the call.
RECURSIVE remove_simple_words(_, _, _)
remove_simple_words(s, i, add_unwanted_words) ==
    LET starts == {p \in i..Len(s) : simple_word_ends(s, p, add_unwanted_words) # {}}
    IN  IF starts = {} THEN SubSeq(s, i, Len(s))
        ELSE LET p == Min(starts)
                 ends == simple_word_ends(s, p, add_unwanted_words)
                 j == CHOOSE e \in ends : \A f \in ends :
                          simple_word_index(SubSeq(s, p, e), add_unwanted_words)
                          <= simple_word_index(SubSeq(s, p, f), add_unwanted_words)
             IN  SubSeq(s, i, p - 1) \o remove_simple_words(s, j + 1, add_unwanted_words)

\* clean_trim, lines 154-165: trim after the truncation.
clean_truncate(trim) == truncate_after_words(str_lower(py_str(trim)), words)

\* clean_trim, lines 167-241: the truncated trim after the translation.
clean_translate(truncated) ==
    LET nochars == replace_each(truncated, characters_to_remove, " ", 1)
        noquote == str_replace(nochars, "'", "ft")
        spaced == str_strip(remove_extra_spaces(noquote))
    IN  translate_string(spaced, trim_translation_keys, trim_translation_mapping)

\* clean_trim, lines 243-348: the translated trim after the unwanted words
\* and the repeated words are removed.
clean_remove_words(translated, add_unwanted_words) ==
    LET nocomplex == replace_each(translated, complex_words_to_remove, "", 1)
        nosimple == remove_simple_words(nocomplex, 1, add_unwanted_words)
        respaced == str_strip(remove_extra_spaces(nosimple))
    IN  remove_duplicate_words(respaced)

\* clean_trim, lines 350-361: the closing strips.
clean_strip(deduped) ==
    LET stripped == str_rstrip(str_rstrip(str_rstrip(str_rstrip(str_rstrip(
                        deduped, CharsOf("-")), CharsOf(".")), CharsOf(" w")),
                        CharsOf(" w-")), CharsOf(" &"))
    IN  str_strip(remove_extra_spaces(stripped))

\* clean_trim(trim, add_unwanted_words); add_unwanted_words = None is <<>>.
clean_trim(trim, add_unwanted_words) ==
    clean_strip(clean_remove_words(clean_translate(clean_truncate(trim)),
                                   add_unwanted_words))

\* What a call gives back: a returned string or a raised exception.
Return(s) == [raised |-> FALSE, value |-> s]
Raise(exc) == [raised |-> TRUE, value |-> exc]

\* A variant that finds a red-flag word only between word boundaries.
check_redflag_whole_words(input_string) ==
    \E k \in DOMAIN words_to_check :
        \E i \in 1..Len(input_string) :
            LET j == i + Len(words_to_check[k]) - 1
            IN  /\ j <= Len(input_string)
                /\ SubSeq(input_string, i, j) = words_to_check[k]
                /\ Boundary(input_string, i)
                /\ Boundary(input_string, j + 1)

\* pattern.search(input_string) over "|".join(words_to_check)
check_redflag_words_in_string(input_string) ==
    \E k \in DOMAIN words_to_check : str_contains(input_string, words_to_check[k])

\* validate_trim(trim, add_invalid_trims); add_invalid_trims = None is <<>>.
\* `trim in invalid_trims` is False for a value that is not a str, and
\* pattern.search raises TypeError for it.
validate_trim(trim, add_invalid_trims) ==
    IF trim.type = "str" /\ InList(trim.v, invalid_trims \o add_invalid_trims)
    THEN Return("unknown")
    ELSE IF trim.type # "str" THEN Raise("TypeError")
    ELSE IF check_redflag_words_in_string(trim.v) THEN Return("unknown")
    ELSE Return(trim.v)
(***************************************************************************)
(* The table.  A row is a record whose fields are the columns the table     *)
(* has; make and model are the normalized strings the upstream cleaners     *)
(* leave, every other cell is a Python value.  A table is a sequence of     *)
(* rows.                                                                    *)
(***************************************************************************)
Rows(d) == DOMAIN d

\* df['trim'] = df['trim'].astype(str).str.lower()
lower_trim_column(d) ==
    [r \in Rows(d) |-> [d[r] EXCEPT !.trim = Str(str_lower(py_str(@)))]]

\* The substrings of update_list as a case-insensitive search reads them.
update_substrings == [k \in DOMAIN update_list |-> str_lower(update_list[k][2])]

\* df['trim'].str.contains(substring, case=False, na=False) for the rules
\* from..: the rules whose substring the row's trim holds.
matching_updates(row, from) ==
    IF row.trim.type # "str" THEN {}
    ELSE LET t == str_lower(row.trim.v)
         IN  {k \in from..Len(update_list) : str_contains(t, update_substrings[k])}

\* A variant that stops at the first rule that matches.
apply_first_update(row, from) ==
    LET hits == matching_updates(row, from)
    IN  IF hits = {} THEN row
        ELSE LET u == update_list[Min(hits)]
             IN  [row EXCEPT ![u[1]] = Str(u[3])]

\* The loop of extract_info_from_trim over update_list[from..] for one row.
\* The loop never writes trim, so a rule that does not match now does not
\* match later: the loop goes from one matching rule to the next.
RECURSIVE apply_update_list(_, _)
apply_update_list(row, from) ==
    LET hits == matching_updates(row, from)
    IN  IF hits = {} THEN row
        ELSE LET u == update_list[Min(hits)]
             IN  apply_update_list([row EXCEPT ![u[1]] = Str(u[3])], Min(hits) + 1)

extract_info_from_trim(d) == [r \in Rows(d) |-> apply_update_list(d[r], 1)]

\* df['trim_backup'] = df['trim']
snapshot_trim_backup(d) ==
    [r \in Rows(d) |->
        [col \in DOMAIN d[r] \cup {"trim_backup"} |->
            IF col = "trim_backup" THEN d[r].trim ELSE d[r][col]]]

\* A variant that leaves the column in the table.
drop_trim_backup_kept(d) == d

\* df.drop("trim_backup", axis=1)
drop_trim_backup(d) ==
    [r \in Rows(d) |-> [col \in DOMAIN d[r] \ {"trim_backup"} |-> d[r][col]]]

(***************************************************************************)
(* The per-make processor.                                                  *)
(***************************************************************************)
\* mask = df['make'] == make
mask(d, make) == {r \in Rows(d) : d[r].make = make}

\* A variant that cleans the trim of every row, of the make or not.
clean_stage_all_rows(d, make, add_unwanted_words) ==
    [r \in Rows(d) |-> [d[r] EXCEPT !.trim = Str(clean_trim(@, add_unwanted_words))]]

\* df.loc[mask, 'trim'].apply(clean_trim, add_unwanted_words=...)
clean_stage(d, make, add_unwanted_words) ==
    LET m == mask(d, make)
    IN  [r \in Rows(d) |->
            IF r \in m
            THEN [d[r] EXCEPT !.trim = Str(clean_trim(@, add_unwanted_words))]
            ELSE d[r]]

\* Series.replace(mapping): a cell equal to a key becomes that key's value;
\* every cell is looked up once, in the dict as the literal builds it.
replace_cell(cell, mapping) ==
    IF cell.type = "str" /\ dict_has(mapping, cell.v)
    THEN Str(dict_get(mapping, cell.v))
    ELSE cell

\* A variant that applies no correction.
correct_stage_skipped(d, make, trim_correction_mapping) == d

\* if trim_correction_mapping: df.loc[mask, 'trim'].replace(...)
correct_stage(d, make, trim_correction_mapping) ==
    IF trim_correction_mapping = <<>> THEN d
    ELSE LET m == mask(d, make)
         IN  [r \in Rows(d) |->
                IF r \in m
                THEN [d[r] EXCEPT !.trim = replace_cell(@, trim_correction_mapping)]
                ELSE d[r]]

\* df.loc[mask, 'trim'].apply(validate_trim, add_invalid_trims=...); the
\* cells are str here (clean_trim returns a str), so the call returns.
validate_stage(d, make, add_invalid_trims) ==
    LET m == mask(d, make)
    IN  [r \in Rows(d) |->
            IF r \in m
            THEN [d[r] EXCEPT !.trim = Str(validate_trim(@, add_invalid_trims).value)]
            ELSE d[r]]

\* A variant that counts the trim over the rows of every make.
make_trim_count_all_rows(d, make, t) == Cardinality({r \in Rows(d) : d[r].trim = Str(t)})

\* make_data.trim.value_counts()[t]
make_trim_count(d, make, t) == Cardinality({r \in mask(d, make) : d[r].trim = Str(t)})

\* The index that get_sorted_trims_above_threshold sorts: the trims of the
\* make with count >= threshold, without 'unknown', longer than 2.
trims_above_threshold(d, make, threshold) ==
    {t \in {d[r].trim.v : r \in mask(d, make)} :
        /\ make_trim_count(d, make, t) >= threshold
        /\ t # "unknown"
        /\ Len(t) > 2}

\* The orders of the set S as lists.
Orders(S) ==
    IF S = {} THEN {<<>>}
    ELSE {f \in [1..Cardinality(S) -> S] :
            \A i, j \in 1..Cardinality(S) : i # j => f[i] # f[j]}

\* A variant that sorts by length, shortest first.
get_sorted_trims_shortest_first(d, make, threshold) ==
    {f \in Orders(trims_above_threshold(d, make, threshold)) :
        \A i, j \in DOMAIN f : i < j => Len(f[i]) <= Len(f[j])}

\* get_sorted_trims_above_threshold: sorted by length, longest first.  The
\* sort (sort_values, quicksort) does not say how equal lengths are ordered:
\* every order that is descending in length is a possible result.
get_sorted_trims_above_threshold(d, make, threshold) ==
    {f \in Orders(trims_above_threshold(d, make, threshold)) :
        \A i, j \in DOMAIN f : i < j => Len(f[i]) >= Len(f[j])}

\* A variant that takes the last entry of the list that occurs.
update_unknown_trim_last_entry(row, valid_trims) ==
    IF row.trim # Str("unknown") THEN row
    ELSE LET hits == {k \in DOMAIN valid_trims :
                        str_contains(row.trim_backup.v, valid_trims[k])}
         IN  IF hits # {}
             THEN [row EXCEPT !.trim = Str(valid_trims[Max(hits)])]
             ELSE row

\* update_unknown_trim(row, valid_trims)
update_unknown_trim(row, valid_trims) ==
    IF row.trim # Str("unknown") THEN row
    ELSE LET hits == {k \in DOMAIN valid_trims :
                        str_contains(row.trim_backup.v, valid_trims[k])}
         IN  IF hits # {} /\ valid_trims[Min(hits)] # ""
             THEN [row EXCEPT !.trim = Str(valid_trims[Min(hits)])]
             ELSE row

\* df.loc[mask] = df.loc[mask].apply(update_unknown_trim, args=(valid_trims,), axis=1)
backfill_stage(d, make, valid_trims) ==
    LET m == mask(d, make)
    IN  [r \in Rows(d) |-> IF r \in m THEN update_unknown_trim(d[r], valid_trims) ELSE d[r]]

\* The lists the backfill may run with: the derived one for "auto", the
\* given one for a non-empty list, none (no backfill) otherwise.
backfill_lists(d, c) ==
    IF c.valid_trims.kind = "auto"
    THEN get_sorted_trims_above_threshold(d, c.make, c.unknown_threshold)
    ELSE {c.valid_trims.list}

\* process_trim_by_make with the arguments of call c: the tables it may return.
process_trim_by_make(d, c) ==
    LET cleaned == clean_stage(d, c.make, c.add_unwanted_words)
        corrected == correct_stage(cleaned, c.make, c.trim_correction_mapping)
        validated == validate_stage(corrected, c.make, c.add_invalid_trims)
    IN  {backfill_stage(validated, c.make, valid_trims) :
            valid_trims \in backfill_lists(validated, c)}

(***************************************************************************)
(* The closing steps of process_trim.                                       *)
(***************************************************************************)
\* df['trim'].fillna("unknown")
fillna_unknown(d) ==
    [r \in Rows(d) |->
        IF d[r].trim.type \in {"float", "NoneType"}
        THEN [d[r] EXCEPT !.trim = Str("unknown")]
        ELSE d[r]]

\* df['trim'].value_counts()[t]
trim_count(d, t) == Cardinality({r \in Rows(d) : d[r].trim = t})

\* A variant that counts a trim within each make apart: the trims that some
\* make alone has in min_occurrences rows.
popular_trims_by_make(d, min_occ) ==
    {d[r].trim : r \in {q \in Rows(d) :
        Cardinality({p \in Rows(d) : d[p].make = d[q].make /\ d[p].trim = d[q].trim})
            >= min_occ}}

\* set(counts[counts >= min_occurrences].index)
popular_trims(d, min_occ) ==
    {d[r].trim : r \in {q \in Rows(d) : trim_count(d, d[q].trim) >= min_occ}}

\* df.loc[~df['trim'].isin(popular_trims), 'trim'] = 'unknown'
suppress_rare(d, min_occ) ==
    LET popular == popular_trims(d, min_occ)
    IN  [r \in Rows(d) |->
            IF d[r].trim \in popular THEN d[r]
            ELSE [d[r] EXCEPT !.trim = Str("unknown")]]

\* A variant of the concatenation with the trim before the model.
combine_concat_trim_first(d) ==
    [r \in Rows(d) |-> [d[r] EXCEPT !.trim = Str(@.v \o "-" \o d[r].model)]]

\* df['trim'] = df['model'] + "-" + df['trim']
combine_concat(d) ==
    [r \in Rows(d) |-> [d[r] EXCEPT !.trim = Str(d[r].model \o "-" \o @.v)]]

\* df.loc[df['trim'] == 'unknown', 'trim'] = df['model'] + "-unknown"
combine_unknown(d) ==
    [r \in Rows(d) |->
        IF d[r].trim = Str("unknown")
        THEN [d[r] EXCEPT !.trim = Str(d[r].model \o "-unknown")]
        ELSE d[r]]

\* if combine_with_modelname: ...
combine_stage(d, combine) == IF combine THEN combine_unknown(combine_concat(d)) ELSE d

(***************************************************************************)
(* The state machine.  A call of process_trim walks pc through the steps    *)
(* of the function body; the caller may then hand the returned table to a   *)
(* second call.  Under SpecFn the state is one call of clean_trim and       *)
(* validate_trim on a single value.                                         *)
(***************************************************************************)
VARIABLES
    pc,                      \* the step process_trim takes next
    df,                      \* the table
    call,                    \* the place in make_calls of the next per-make call
    min_occurrences,         \* argument of process_trim
    combine_with_modelname,  \* argument of process_trim
    run,                     \* 1: the first call, 2: a call on the first call's result
    given,                   \* the table the caller gave to the first call
    before_suppress,         \* the table as rare-value suppression found it
    after_suppress,          \* the table as rare-value suppression left it
    first_result,            \* the table the first call returned
    fn                       \* SpecFn: the value, the arguments and the results

vars == <<pc, df, call, min_occurrences, combine_with_modelname, run, given,
          before_suppress, after_suppress, first_result, fn>>

\* The largest input table.
MaxRows == 4

\* A row as the upstream cleaners hand it over: no side column is known yet.
Row(make, model, trim) ==
    [make |-> make, model |-> model, trim |-> trim,
     bodytype |-> PyNaN, fueltype |-> PyNaN, drivetrain |-> PyNaN,
     transmission |-> PyNaN]

\* The rows input tables are made of.  fiat is a make process_make accepts
\* (preprocessing.py, lines 171-173).
SampleRows ==
  <<
    Row("ford", "f-150", Str("XLT")),
    Row("ford", "ranger", Str("XLT")),
    Row("ford", "f-150", Str("SE")),
    Row("ford", "f-150", Str("XLT extra")),
    Row("ford", "f-150", Str("XLT SuperCrew 4x4, w/ Leather (2019 model)")),
    Row("toyota", "tundra", Str("XLT")),
    Row("bmw", "x5", PyNaN),
    Row("bmw", "x5", PyNone),
    Row("bmw", "x5", Str("conv")),
    Row("ram", "1500", Str("crewcab")),
    Row("dodge", "1500", Str("crewcab")),
    Row("fiat", "500", PyNaN),
    Row("fiat", "500", Str(""))
  >>

\* The values of min_occurrences the tables are run with.
SampleMinOccurrences == {2}

\* Input tables: up to MaxRows sample rows, listed in the order of SampleRows.
InputTables ==
    UNION {{[r \in 1..n |-> SampleRows[idx[r]]] :
              idx \in {f \in [1..n -> DOMAIN SampleRows] :
                         \A i \in 1..(n - 1) : f[i] <= f[i + 1]}} :
           n \in 1..MaxRows}

\* The longest input table that comes with a trim_backup column of its own.
MaxRowsWithBackup == 2

\* The table d with a trim_backup column left by an earlier run.
WithBackup(d) ==
    [r \in Rows(d) |->
        [col \in DOMAIN d[r] \cup {"trim_backup"} |->
            IF col = "trim_backup" THEN Str("old") ELSE d[r][col]]]

\* Input tables that already have a trim_backup column.
InputTablesWithBackup ==
    {WithBackup(d) : d \in {t \in InputTables : Len(t) <= MaxRowsWithBackup}}

\* The longest input table whose side columns are known beforehand.
MaxRowsWithSideColumns == 2

\* Trims that hold the substrings of several rules of update_list.
SampleExtractTrims ==
    <<"LX", "AWD 2wd", "2wd AWD", "quattro 2wd", "Sedan coupe hatch",
      "Hybrid TDI", "CVT 6MT manual">>

\* A row whose side columns the upstream cleaners have filled.
RowWithSideColumns(trim) ==
    [make |-> "honda", model |-> "civic", trim |-> Str(trim),
     bodytype |-> Str("suv"), fueltype |-> Str("gas"), drivetrain |-> Str("RWD"),
     transmission |-> Str("auto")]

\* Input tables of such rows.
InputTablesWithSideColumns ==
    UNION {{[r \in 1..n |-> RowWithSideColumns(SampleExtractTrims[idx[r]])] :
              idx \in {f \in [1..n -> DOMAIN SampleExtractTrims] :
                         \A i \in 1..(n - 1) : f[i] <= f[i + 1]}} :
           n \in 1..MaxRowsWithSideColumns}

NoTable == <<>>
FnIdle == [step |-> "idle"]

Init ==
    /\ df \in InputTables \cup InputTablesWithBackup \cup InputTablesWithSideColumns
    /\ given = df
    /\ min_occurrences \in SampleMinOccurrences
    /\ combine_with_modelname \in BOOLEAN
    /\ pc = "lower"
    /\ call = 1
    /\ run = 1
    /\ before_suppress = NoTable
    /\ after_suppress = NoTable
    /\ first_result = NoTable
    /\ fn = FnIdle

args == <<min_occurrences, combine_with_modelname, run, given, first_result, fn>>

\* line 591
LowerTrim ==
    /\ pc = "lower"
    /\ df' = lower_trim_column(df)
    /\ pc' = "extract"
    /\ UNCHANGED <<call, before_suppress, after_suppress, args>>

\* line 594
ExtractInfo ==
    /\ pc = "extract"
    /\ df' = extract_info_from_trim(df)
    /\ pc' = "backup"
    /\ UNCHANGED <<call, before_suppress, after_suppress, args>>

\* line 597
SnapshotBackup ==
    /\ pc = "backup"
    /\ df' = snapshot_trim_backup(df)
    /\ pc' = "makes"
    /\ call' = 1
    /\ UNCHANGED <<before_suppress, after_suppress, args>>

\* A variant that goes on to the closing steps after the first call.
ProcessMakeCutShort ==
    /\ pc = "makes"
    /\ call <= Len(make_calls)
    /\ df' \in process_trim_by_make(df, make_calls[call])
    /\ call' = call + 1
    /\ pc' = "drop"
    /\ UNCHANGED <<before_suppress, after_suppress, args>>

\* lines 605-1059: the next call of process_trim_by_make
ProcessMake ==
    /\ pc = "makes"
    /\ call <= Len(make_calls)
    /\ df' \in process_trim_by_make(df, make_calls[call])
    /\ call' = call + 1
    /\ pc' = IF call = Len(make_calls) THEN "drop" ELSE "makes"
    /\ UNCHANGED <<before_suppress, after_suppress, args>>

\* line 1064
DropBackup ==
    /\ pc = "drop"
    /\ df' = drop_trim_backup(df)
    /\ pc' = "fillna"
    /\ UNCHANGED <<call, before_suppress, after_suppress, args>>

\* line 1067
FillNa ==
    /\ pc = "fillna"
    /\ df' = fillna_unknown(df)
    /\ pc' = "suppress"
    /\ UNCHANGED <<call, before_suppress, after_suppress, args>>

\* lines 1070-1071
SuppressRare ==
    /\ pc = "suppress"
    /\ df' = suppress_rare(df, min_occurrences)
    /\ before_suppress' = df
    /\ after_suppress' = df'
    /\ pc' = "combine"
    /\ UNCHANGED <<call, args>>

\* lines 1075-1077
Combine ==
    /\ pc = "combine"
    /\ df' = combine_stage(df, combine_with_modelname)
    /\ pc' = "return"
    /\ UNCHANGED <<call, before_suppress, after_suppress, args>>

\* line 1084
ReturnTable ==
    /\ pc = "return"
    /\ pc' = "done"
    /\ first_result' = IF run = 1 THEN df ELSE first_result
    /\ UNCHANGED <<df, call, before_suppress, after_suppress, min_occurrences,
                   combine_with_modelname, run, given, fn>>

\* The longest table that is fed to process_trim a second time.
MaxRowsAgain == 2

\* The caller feeds the returned table to process_trim again, with the same
\* min_occurrences and combine_with_modelname.
CallAgain ==
    /\ pc = "done"
    /\ run = 1
    /\ Len(df) <= MaxRowsAgain
    /\ run' = 2
    /\ pc' = "lower"
    /\ call' = 1
    /\ UNCHANGED <<df, before_suppress, after_suppress, min_occurrences,
                   combine_with_modelname, given, first_result, fn>>

Next ==
    \/ LowerTrim
    \/ ExtractInfo
    \/ SnapshotBackup
    \/ ProcessMake
    \/ DropBackup
    \/ FillNa
    \/ SuppressRare
    \/ Combine
    \/ ReturnTable
    \/ CallAgain

Spec == Init /\ [][Next]_vars

(***************************************************************************)
(* SpecFn: clean_trim and validate_trim called on one value.                *)
(***************************************************************************)
\* The longest sample text, in words.
MaxWords == 3

\* The words sample texts are made of.
SampleWords == <<"a", "c", "model", "XLT", "a.ww", "snow", "M-Sport", "xDrive",
                 "(2019)", "nav,">>

\* The texts of n sample words with single spaces between them.
RECURSIVE TextsOf(_)
TextsOf(n) ==
    IF n = 1 THEN {SampleWords[k] : k \in DOMAIN SampleWords}
    ELSE {t \o " " \o SampleWords[k] : t \in TextsOf(n - 1), k \in DOMAIN SampleWords}

SampleTexts == UNION {TextsOf(n) : n \in 1..MaxWords}

\* Trims as validate_trim meets them: the sentinel, entries of the invalid
\* lists, a red-flag word inside a longer word, and accepted trims; and
\* trims that hold keys of trim_translation_mapping.
SampleTrims ==
    {"unknown", "nan", "premium", "bmw", "xlt navigator", "limited", "m-sport",
     "hybride rechargeable", "electriques", "prem plus line",
     "XLT with nav (2019)"}

\* The values the two functions are called with.
FnValues ==
    {PyNone, PyNaN, PyInt("2019"), Str(""), Str("2019")}
    \cup {Str(t) : t \in SampleTexts}
    \cup {Str(t) : t \in SampleTrims}

\* The add_unwanted_words and add_invalid_trims lists they are called with
\* (none, and those of the bmw call).
SampleUnwantedWords == {<<>>, words_to_remove_bmw}
SampleInvalidTrims == {<<>>, invalid_bmw_trims}

NotCalled == [raised |-> FALSE, value |-> "(not called)"]

InitFn ==
    /\ pc = "idle"
    /\ df = NoTable
    /\ given = NoTable
    /\ min_occurrences = 0
    /\ combine_with_modelname = FALSE
    /\ call = 1
    /\ run = 1
    /\ before_suppress = NoTable
    /\ after_suppress = NoTable
    /\ first_result = NoTable
    /\ \E x \in FnValues, w \in SampleUnwantedWords, i \in SampleInvalidTrims :
          fn = [step |-> "start", x |-> x, add_unwanted_words |-> w,
                add_invalid_trims |-> i, cleaned |-> NotCalled,
                recleaned |-> NotCalled, validated |-> NotCalled]

table_vars == <<pc, df, call, min_occurrences, combine_with_modelname, run, given,
                before_suppress, after_suppress, first_result>>

\* clean_trim(x, add_unwanted_words): every step of it is defined for every
\* str(x), so the call returns.
CallCleanTrim ==
    /\ fn.step = "start"
    /\ fn' = [fn EXCEPT !.step = "cleaned",
                        !.cleaned = Return(clean_trim(fn.x, fn.add_unwanted_words))]
    /\ UNCHANGED table_vars

\* clean_trim on what clean_trim returned
CallCleanTrimAgain ==
    /\ fn.step = "cleaned"
    /\ fn' = [fn EXCEPT !.step = "recleaned",
                        !.recleaned = Return(clean_trim(Str(fn.cleaned.value),
                                                        fn.add_unwanted_words))]
    /\ UNCHANGED table_vars

\* validate_trim(x, add_invalid_trims)
CallValidateTrim ==
    /\ fn.step = "recleaned"
    /\ fn' = [fn EXCEPT !.step = "validated",
                        !.validated = validate_trim(fn.x, fn.add_invalid_trims)]
    /\ UNCHANGED table_vars

NextFn ==
    \/ CallCleanTrim
    \/ CallCleanTrimAgain
    \/ CallValidateTrim

SpecFn == InitFn /\ [][NextFn]_vars

(***************************************************************************)
(* SpecMake: process_trim_by_make called for one make, then for another,    *)
(* on a table as process_trim has it when the per-make calls start.         *)
(***************************************************************************)
\* The longest table of SpecMake.
MaxMakeRows == 2

\* The rows the tables of SpecMake are made of, as process_trim is given
\* them.
SampleMakeRows ==
  <<
    Row("mercedes-benz", "c-class", Str("AMG C 43 4matic")),
    Row("mercedes-benz", "glc", Str("AMG GLC 43")),
    Row("dodge", "journey", Str("CVP")),
    Row("bmw", "x5", Str("M-Sport xDrive")),
    Row("ford", "f-150", Str("Lariat SE extra")),
    Row("toyota", "tundra", Str("SR5 extra"))
  >>

\* The tables process_trim_by_make is called on: sample rows after the
\* lowercase step, extract_info_from_trim and the trim_backup snapshot.
MakeTables ==
    UNION {{snapshot_trim_backup(extract_info_from_trim(lower_trim_column(
                [r \in 1..n |-> SampleMakeRows[idx[r]]]))) :
              idx \in {f \in [1..n -> DOMAIN SampleMakeRows] :
                         \A i \in 1..(n - 1) : f[i] <= f[i + 1]}} :
           n \in 1..MaxMakeRows}

\* The most copies of one row in a table of BulkTables.
MaxCopies == 4

\* Rows of one make in numbers that reach unknown_threshold.
BulkRows ==
  <<
    Row("ram", "1500", Str("SLT")),
    Row("ram", "1500", Str("SLT Sport")),
    Row("ram", "1500", Str("Sport SLT")),
    Row("ram", "1500", Str("SLT Sport SLT extra")),
    Row("dodge", "1500", Str("SLT!"))
  >>

\* Tables of a, b and c copies of the first three rows of BulkRows and one
\* copy of each of the last two, prepared as the tables of MakeTables are.
BulkTables ==
    {snapshot_trim_backup(extract_info_from_trim(lower_trim_column(
        [r \in 1..(a + b + c + 2) |->
            IF r <= a THEN BulkRows[1]
            ELSE IF r <= a + b THEN BulkRows[2]
            ELSE IF r <= a + b + c THEN BulkRows[3]
            ELSE IF r <= a + b + c + 1 THEN BulkRows[4]
            ELSE BulkRows[5]]))) :
       a \in 0..MaxCopies, b \in 0..MaxCopies, c \in 0..MaxCopies}

\* The calls of process_trim that SpecMake makes: the policies "auto" (ram,
\* dodge, bmw, mercedes-benz), a literal list (ford) and None (toyota).
SampleCallMakes == {"ram", "dodge", "bmw", "ford", "toyota", "mercedes-benz"}
SampleCalls == {k \in DOMAIN make_calls : make_calls[k].make \in SampleCallMakes}

InitMake ==
    /\ pc = "by_make"
    /\ df \in MakeTables \cup BulkTables
    /\ given = df
    /\ call \in SampleCalls
    /\ \E other \in SampleCalls \ {call} :
          fn = [step |-> "start", other |-> other, first |-> NoTable]
    /\ min_occurrences = 0
    /\ combine_with_modelname = FALSE
    /\ run = 1
    /\ before_suppress = NoTable
    /\ after_suppress = NoTable
    /\ first_result = NoTable

\* df = process_trim_by_make(df, ...) with the arguments of the call `call`
CallByMake ==
    /\ pc = "by_make"
    /\ fn.step = "start"
    /\ \E t \in process_trim_by_make(df, make_calls[call]) :
          /\ df' = t
          /\ fn' = [fn EXCEPT !.step = "first", !.first = t]
    /\ UNCHANGED <<pc, call, min_occurrences, combine_with_modelname, run, given,
                   before_suppress, after_suppress, first_result>>

\* df = process_trim_by_make(df, ...) with the arguments of the other call
CallByOtherMake ==
    /\ pc = "by_make"
    /\ fn.step = "first"
    /\ df' \in process_trim_by_make(df, make_calls[fn.other])
    /\ fn' = [fn EXCEPT !.step = "second"]
    /\ UNCHANGED <<pc, call, min_occurrences, combine_with_modelname, run, given,
                   before_suppress, after_suppress, first_result>>

NextMake ==
    \/ CallByMake
    \/ CallByOtherMake

SpecMake == InitMake /\ [][NextMake]_vars

(***************************************************************************)
(* preprocessing.py: find_outliers_by_model.                                *)
(***************************************************************************)
\* filter_expensive_trims: expensive_trims (lines 816-847).  Two literals
\* that follow each other without a comma are one entry.
expensive_trims ==
  <<
    "m340i", "x3-m40i", "camaro-2ss", "camaro-zl1", "camaro-ss", "corvette-z06",
    "durango-srt", "charger-srt", "charger-rt", "charger-scat", "challenger-srt",
    "challenger-scat", "f-150-raptor", "focus-rs", "mustang-shelby", "f-150-limited",
    "f-150-platinum", "sierra 1500-denali", "q50-red", "grand cherokee-srt",
    "wrangler-unlimited", "wrangler-rubicon", "range rover sport-svr",
    "range rover sport-v8", "range rover sport-autobiography",
    "range rover evoque-hse", "range rover-autobiography", "cx-3-gt", "a-class-amg",
    "s-class-amg", "c-class-c43", "c-class-c63", "c-class-c63s", "c-class-amg",
    "cla-class-amg", "e-class-amg", "gla-class-amg", "glc-class-amg", "gle-class-amg",
    "gle-class-gle43", "s-class-maybach", "s-class-s63", "c-class-amg43",
    "glc-class-43", "glc-class-glc43", "gle-class-63", "gle-class-63s", "gle-class-43",
    "cla-class-cla45", "gla-class-gla45", "cooper 3 door-john cooper works",
    "cooper clubman-john cooper works", "cooper countryman-john cooper works",
    "cooper roadster-john cooper works", "silverado 1500-trx", "impreza-wrx",
    "rav4-hybrid", "corolla-hybrid", "jetta-gli", "xc60-t8cooper 3 door-se",
    "cooper 3 door-john cooper works", "cooper roadster",
    "cooper countryman-john cooper works", "cooper clubman-john cooper works",
    "cooper paceman-john cooper works", "cooper s-convertible", "911-gt3 rs",
    "911-turbo s convertible", "911-turbo", "911-turbo s", "911-gt3",
    "911-targa 4 gts", "cayman-gt4", "cayman-gts", "boxster-spyder", "boxster-gts 4.0",
    "boxster-gts", "macan-gts", "macan-turbo", "cayenne-turbo s", "cayenne-turbo gt",
    "cayenne-turbo", "cayenne-e-hybrid", "cayenne-gts", "panamera-gts",
    "panamera-turbo", "panamera-turbo staycan-turbo s", "taycan-gts"
  >>

\* data[~data['trim'].isin(expensive_trims)]
filter_expensive_trims(data) ==
    SelectSeq(data, LAMBDA row : ~InList(row.trim, expensive_trims))

\* The k-th smallest price of the rows.
kth_price(rows, k) ==
    LET prices == {rows[i].price : i \in DOMAIN rows}
    IN  CHOOSE p \in prices :
            /\ Cardinality({i \in DOMAIN rows : rows[i].price < p}) < k
            /\ Cardinality({i \in DOMAIN rows : rows[i].price <= p}) >= k

\* groupby('year')['price'].quantile(q) for q = q4 / 4, times 4: the
\* quantile lies at place (n - 1) * q of the sorted prices, between two
\* neighbours in proportion to the fraction of the place.
price_quantile_x4(rows, q4) ==
    LET h == (Len(rows) - 1) * q4
        lo == h \div 4
        rem == h % 4
    IN  IF rem = 0 THEN 4 * kth_price(rows, lo + 1)
        ELSE 4 * kth_price(rows, lo + 1)
             + rem * (kth_price(rows, lo + 2) - kth_price(rows, lo + 1))

\* find_outliers_by_model: the default of iqr_multiplier (1.5), times 2
iqr_multiplier_default_x2 == 3

\* upper_threshold and lower_threshold of one year (lines 879-884), times 8
year_thresholds(year_data, iqr_multiplier_x2) ==
    LET q1 == price_quantile_x4(year_data, 1)
        q3 == price_quantile_x4(year_data, 3)
        iqr == q3 - q1
    IN  [upper_x8 |-> 2 * q3 + iqr_multiplier_x2 * iqr + 4000,
         lower_x8 |-> 2 * q1 - iqr_multiplier_x2 * iqr - 4000]

\* year_outliers (lines 886-890)
year_outliers(year_data, iqr_multiplier_x2, only_lower_outliers) ==
    LET t == year_thresholds(year_data, iqr_multiplier_x2)
    IN  IF only_lower_outliers
        THEN SelectSeq(year_data, LAMBDA row :
                 8 * row.price > t.upper_x8 \/ 8 * row.price < t.lower_x8)
        ELSE SelectSeq(year_data, LAMBDA row : 8 * row.price < t.lower_x8)

\* find_outliers_by_model(data, model, iqr_multiplier, only_lower_outliers):
\* the outliers of every year, sorted by year and price; rows equal in both
\* stay in the order of the table (the sort on two columns is stable).
find_outliers_by_model(data, model, iqr_multiplier_x2, only_lower_outliers) ==
    LET filtered_data ==
            filter_expensive_trims(SelectSeq(data, LAMBDA row : row.model = model))
        years == {filtered_data[i].year : i \in DOMAIN filtered_data}
        of_year(y) ==
            year_outliers(SelectSeq(filtered_data, LAMBDA row : row.year = y),
                          iqr_multiplier_x2, only_lower_outliers)
        outliers == UNION {{of_year(y)[i] : i \in DOMAIN of_year(y)} : y \in years}
        before(a, b) ==
            \/ a.year < b.year
            \/ a.year = b.year /\ a.price < b.price
            \/ a.year = b.year /\ a.price = b.price /\ a.index < b.index
    IN  [i \in 1..Cardinality(outliers) |->
            CHOOSE r \in outliers :
                Cardinality({x \in outliers : before(x, r)}) = i - 1]

(***************************************************************************)
(* SpecOutliers: find_outliers_by_model called on one table.                *)
(***************************************************************************)
\* The longest table of SpecOutliers.
MaxOutlierRows == 5

\* The rows the tables of SpecOutliers are made of: model, year, price and
\* the combined trim.
SampleOutlierRows ==
  <<
    [model |-> "f-150", year |-> 2019, price |-> 1000, trim |-> "f-150-xlt"],
    [model |-> "f-150", year |-> 2019, price |-> 20000, trim |-> "f-150-xlt"],
    [model |-> "f-150", year |-> 2019, price |-> 21000, trim |-> "f-150-xlt"],
    [model |-> "f-150", year |-> 2019, price |-> 22000, trim |-> "f-150-xlt"],
    [model |-> "f-150", year |-> 2019, price |-> 60000, trim |-> "f-150-xlt"],
    [model |-> "f-150", year |-> 2020, price |-> 20000, trim |-> "f-150-xlt"],
    [model |-> "f-150", year |-> 2019, price |-> 90000, trim |-> "f-150-raptor"],
    [model |-> "ranger", year |-> 2019, price |-> 1000, trim |-> "ranger-xlt"]
  >>

\* The tables: up to MaxOutlierRows sample rows in the order of
\* SampleOutlierRows, each with its index label.
OutlierTables ==
    UNION {{[r \in 1..n |->
                [index |-> r, model |-> SampleOutlierRows[idx[r]].model,
                 year |-> SampleOutlierRows[idx[r]].year,
                 price |-> SampleOutlierRows[idx[r]].price,
                 trim |-> SampleOutlierRows[idx[r]].trim]] :
              idx \in {f \in [1..n -> DOMAIN SampleOutlierRows] :
                         \A i \in 1..(n - 1) : f[i] <= f[i + 1]}} :
           n \in 1..MaxOutlierRows}

InitOutliers ==
    /\ pc = "outliers"
    /\ df \in OutlierTables
    /\ given = df
    /\ min_occurrences = 0
    /\ combine_with_modelname = FALSE
    /\ call = 1
    /\ run = 1
    /\ before_suppress = NoTable
    /\ after_suppress = NoTable
    /\ first_result = NoTable
    /\ \E model \in {"f-150", "ranger"}, only_lower_outliers \in BOOLEAN :
          fn = [step |-> "start", model |-> model,
                only_lower_outliers |-> only_lower_outliers, outliers |-> NoTable]

\* outliers = find_outliers_by_model(df, model, only_lower_outliers=...)
CallFindOutliers ==
    /\ pc = "outliers"
    /\ fn.step = "start"
    /\ fn' = [fn EXCEPT !.step = "returned",
                        !.outliers = find_outliers_by_model(
                            df, fn.model, iqr_multiplier_default_x2,
                            fn.only_lower_outliers)]
    /\ UNCHANGED table_vars

NextOutliers == CallFindOutliers

SpecOutliers == InitOutliers /\ [][NextOutliers]_vars
(***************************************************************************)
(* Properties of process_trim's result.                                     *)
(***************************************************************************)
\* process_trim has returned from its first call on the table.
Returned == pc = "done" /\ run = 1

StartsWith(s, p) == Len(s) >= Len(p) /\ SubSeq(s, 1, Len(p)) = p
EndsWith(s, p) == Len(s) >= Len(p) /\ SubSeq(s, Len(s) - Len(p) + 1, Len(s)) = p

\* What the trim of an absent input trim is to be in the result.
UnknownOf(row) ==
    IF combine_with_modelname THEN Str(row.model \o "-unknown") ELSE Str("unknown")

\* The trim of a result row without the model and the dash put before it.
TrimPart(row) ==
    IF combine_with_modelname /\ row.trim.type = "str"
       /\ StartsWith(row.trim.v, row.model \o "-")
    THEN SubSeq(row.trim.v, Len(row.model) + 2, Len(row.trim.v))
    ELSE py_str(row.trim)

\* C1: when process_trim has returned, every row whose input trim was absent
\* (NaN or None) has the trim 'unknown', or '<model>-unknown' when the model
\* name is combined, whatever the make of the row.
C1_TrimNeverMissing ==
    Returned =>
        \A r \in Rows(df) :
            given[r].trim.type # "str" => df[r].trim = UnknownOf(df[r])

\* C2: when process_trim has returned, every trim that does not end in
\* 'unknown' occurs in at least min_occurrences rows of the result, with
\* the model name combined or not.
C2_FrequencyFloor ==
    Returned =>
        \A r \in Rows(df) :
            ~EndsWith(py_str(df[r].trim), "unknown")
                => trim_count(df, df[r].trim) >= min_occurrences

C4_GlobalSuppression ==
    after_suppress # NoTable =>
        \A r \in Rows(after_suppress) :
            LET t == before_suppress[r].trim
                n == Cardinality({q \in Rows(before_suppress) : before_suppress[q].trim = t})
            IN  after_suppress[r].trim = IF n >= min_occurrences THEN t ELSE Str("unknown")

\* A table in which a trim reaches min_occurrences only over two makes and
\* is kept, and a trim that a make's validation accepted is one row short
\* and is reset.
C4_Witness ==
    /\ after_suppress # NoTable
    /\ run = 1
    /\ \E r, q \in Rows(after_suppress) :
          /\ before_suppress[r].make # before_suppress[q].make
          /\ before_suppress[r].trim = before_suppress[q].trim
          /\ before_suppress[r].trim # Str("unknown")
          /\ trim_count(before_suppress, before_suppress[r].trim) = min_occurrences
          /\ after_suppress[r].trim = before_suppress[r].trim
    /\ \E r \in Rows(after_suppress) :
          /\ before_suppress[r].trim = Str("se")
          /\ trim_count(before_suppress, before_suppress[r].trim) = min_occurrences - 1
          /\ after_suppress[r].trim = Str("unknown")

\* C5: when process_trim has returned, no trim is null or empty, and the
\* trim (without the model put before it) is 'unknown' or a string of more
\* than two characters.
C5_UnknownClosure ==
    Returned =>
        \A r \in Rows(df) :
            /\ df[r].trim.type = "str"
            /\ df[r].trim.v # ""
            /\ TrimPart(df[r]) = "unknown" \/ Len(TrimPart(df[r])) > 2

IsLowercase(s) == \A i \in 1..Len(s) : Ch(s, i) \notin UpperSet
NoOuterWhitespace(s) ==
    s = "" \/ (Ch(s, 1) \notin Whitespace /\ Ch(s, Len(s)) \notin Whitespace)
NoDoubleWhitespace(s) ==
    \A i \in 1..(Len(s) - 1) : ~(Ch(s, i) \in Whitespace /\ Ch(s, i + 1) \in Whitespace)
NoRepeatedWord(s) ==
    LET ws == str_split(s)
    IN  \A j, k \in 1..Len(ws) : j # k => ws[j] # ws[k]

\* C6: with combine_with_modelname off, every returned trim is lowercase,
\* has no whitespace at its ends, no two whitespace characters in a row,
\* and no word twice.
C6_Normalized ==
    (Returned /\ ~combine_with_modelname) =>
        \A r \in Rows(df) :
            LET t == py_str(df[r].trim)
            IN  /\ IsLowercase(t)
                /\ NoOuterWhitespace(t)
                /\ NoDoubleWhitespace(t)
                /\ NoRepeatedWord(t)

\* C9: process_trim called on its own result, with the same min_occurrences
\* and combine_with_modelname, returns the trims it was given.
C9_FixedPoint ==
    (pc = "done" /\ run = 2) =>
        \A r \in Rows(df) : df[r].trim = first_result[r].trim

(***************************************************************************)
(* Columns, labels and phases of process_trim.                              *)
(***************************************************************************)
HasBackup(d) == \E r \in Rows(d) : "trim_backup" \in DOMAIN d[r]
AllHaveBackup(d) == \A r \in Rows(d) : "trim_backup" \in DOMAIN d[r]

C14_LabelsUniqueAcrossMakes ==
    (Returned /\ combine_with_modelname) =>
        \A r, q \in Rows(df) : df[r].make # df[q].make => df[r].trim # df[q].trim

\* The raw trim of Example 1.
Example1Trim == Str("XLT SuperCrew 4x4, w/ Leather (2019 model)")

\* C15: a ford f-150 row with the raw trim of Example 1, in a table with
\* at least min_occurrences such rows, is returned (combine on) with the
\* trim 'f-150-xlt supercrew'.
C15_Example1 ==
    (Returned /\ combine_with_modelname) =>
        \A r \in Rows(df) :
            (/\ given[r].make = "ford"
             /\ given[r].model = "f-150"
             /\ given[r].trim = Example1Trim
             /\ Cardinality({q \in Rows(given) : given[q] = given[r]}) >= min_occurrences)
            => df[r].trim = Str("f-150-xlt supercrew")

\* The table the running call of process_trim was given.
RunInput == IF run = 1 THEN given ELSE first_result

\* What each phase of process_trim finds done when it starts.
PhaseState ==
    /\ pc = "extract" => df = lower_trim_column(RunInput)
    /\ pc = "backup" => df = extract_info_from_trim(lower_trim_column(RunInput))
    /\ (pc = "makes" /\ call = 1) =>
          df = snapshot_trim_backup(extract_info_from_trim(lower_trim_column(RunInput)))
    /\ pc \in {"drop", "fillna", "suppress"} => call = Len(make_calls) + 1
    /\ pc = "combine" =>
          /\ after_suppress = suppress_rare(before_suppress, min_occurrences)
          /\ df = after_suppress
    /\ pc \in {"return", "done"} =>
          /\ after_suppress = suppress_rare(before_suppress, min_occurrences)
          /\ df = combine_stage(after_suppress, combine_with_modelname)

\* The phase that follows each phase.
PhaseStep ==
    pc' # pc =>
        <<pc, pc'>> \in {<<"lower", "extract">>, <<"extract", "backup">>,
                         <<"backup", "makes">>, <<"makes", "drop">>,
                         <<"drop", "fillna">>, <<"fillna", "suppress">>,
                         <<"suppress", "combine">>, <<"combine", "return">>,
                         <<"return", "done">>, <<"done", "lower">>}

\* C17: the phases of process_trim run in one order: lowercase, extract on
\* the lowercased text, snapshot, every per-make call, drop, fill, suppress,
\* combine.  Suppression starts only after the last per-make call, and after
\* it the trims change by the combination with the model only.
C17_PhaseOrder == []PhaseState /\ [][PhaseStep]_vars

\* A returned table in which a per-make call changed a trim and the
\* suppression reset another.
C17_Witness ==
    /\ Returned
    /\ \E r \in Rows(df) : before_suppress[r].trim \notin {Str("unknown"), lower_trim_column(given)[r].trim}
    /\ \E r \in Rows(df) : before_suppress[r].trim # Str("unknown")
                           /\ after_suppress[r].trim = Str("unknown")

\* A call of process_trim_by_make exists for the make.
HasCall(make) == \E k \in DOMAIN make_calls : make_calls[k].make = make

\* C18: a row of a make without a rule set of its own, the makes without
\* any call included, reaches the suppression with the trim that clean_trim
\* and validate_trim without extra lists give, or, when that is 'unknown',
\* with a trim that a row of its make has.
C18_EveryMakeProcessed ==
    (before_suppress # NoTable /\ run = 1) =>
        \A r \in Rows(before_suppress) :
            (~HasCall(given[r].make) \/ InList(given[r].make, other_makes)) =>
                LET v == validate_trim(Str(clean_trim(given[r].trim, <<>>)), <<>>).value
                    t == before_suppress[r].trim
                IN  \/ t = Str(v)
                    \/ /\ v = "unknown"
                       /\ \E q \in Rows(given) \ {r} :
                             /\ given[q].make = given[r].make
                             /\ before_suppress[q].trim = t


(***************************************************************************)
(* Properties of extract_info_from_trim.                                    *)
(***************************************************************************)
\* The columns the rules of update_list write.
TargetColumns == {"bodytype", "fueltype", "drivetrain", "transmission"}

\* The rules for the column whose substring occurs in the trim, read
\* without regard to case.
RulesFor(col, trim) ==
    {k \in DOMAIN update_list :
        /\ update_list[k][1] = col
        /\ str_contains(str_lower(trim), str_lower(update_list[k][2]))}

\* C23: extract_info_from_trim applies its rules in list order: for every
\* row and every target column (bodytype, fueltype, drivetrain,
\* transmission) the final value is the value of the last rule for that
\* column whose substring occurs in the trim of the row; the column is
\* unchanged when no rule matches; trim, make and model are never changed.
C23_LastRuleWins ==
    (pc = "backup" /\ run = 1) =>
        LET before == lower_trim_column(given)
        IN  /\ Rows(df) = Rows(before)
            /\ \A r \in Rows(df) :
                  /\ DOMAIN df[r] = DOMAIN before[r]
                  /\ \A col \in DOMAIN df[r] \ TargetColumns : df[r][col] = before[r][col]
                  /\ \A col \in TargetColumns :
                        LET rules == RulesFor(col, before[r].trim.v)
                        IN  df[r][col] = IF rules = {} THEN before[r][col]
                                         ELSE Str(update_list[Max(rules)][3])

\* A row whose trim holds '2wd' and then 'awd' has the value of the later
\* rule ('2wd', FWD) and keeps the side columns no rule matches; a row that
\* holds 'quattro' and '2wd' has the value of the second 'quattro' rule.
C23_Witness ==
    /\ pc = "backup"
    /\ run = 1
    /\ \E r \in Rows(df) :
          /\ df[r].trim = Str("awd 2wd")
          /\ df[r].drivetrain = Str("FWD")
          /\ df[r].bodytype = Str("suv")
    /\ \E r \in Rows(df) :
          /\ df[r].trim = Str("quattro 2wd")
          /\ df[r].drivetrain = Str("AWD")
(***************************************************************************)
(* Properties of clean_trim and validate_trim.                              *)
(***************************************************************************)
\* A stopword of clean_trim (a listed one or an added one) stands in s
\* between word boundaries.
HasStopword(s, add_unwanted_words) ==
    \E i \in 1..Len(s) : simple_word_ends(s, i, add_unwanted_words) # {}

\* One of the phrases of complex_words_to_remove occurs in s.
HasComplexPhrase(s) ==
    \E k \in DOMAIN complex_words_to_remove : str_contains(s, complex_words_to_remove[k])

\* C7: what clean_trim returns holds no stopword as a whole word and no
\* phrase of the complex removal list.
C7_NoStopwordLeft ==
    fn.step \in {"cleaned", "recleaned", "validated"} =>
        /\ ~HasStopword(fn.cleaned.value, fn.add_unwanted_words)
        /\ ~HasComplexPhrase(fn.cleaned.value)

\* C8: clean_trim, called with the same extra stopwords on what it
\* returned, returns it unchanged.
C8_Idempotent ==
    fn.step \in {"recleaned", "validated"} => fn.recleaned = fn.cleaned

\* None, the empty string, a number or a string of digits.
IsDegenerate(x) ==
    \/ x.type = "NoneType"
    \/ x.type = "int"
    \/ x.type = "str" /\ \A i \in 1..Len(x.v) : Ch(x.v, i) \in CharsOf(Digits)

\* C10: clean_trim and validate_trim return a string, and do not raise,
\* when they are given None, the empty string or a number.
C10_Total ==
    (fn.step = "validated" /\ IsDegenerate(fn.x)) =>
        /\ ~fn.cleaned.raised
        /\ ~fn.validated.raised

\* C11: clean_trim(None) returns what clean_trim('nan') returns, and
\* validate_trim maps that result to 'unknown'.
C11_NoneIsNan ==
    (fn.step # "start" /\ fn.x = PyNone) =>
        /\ fn.cleaned.value = clean_trim(Str("nan"), fn.add_unwanted_words)
        /\ validate_trim(Str(fn.cleaned.value), fn.add_invalid_trims) = Return("unknown")

\* t is an entry of the fixed invalid list or of the extra one.
IsInvalidEntry(t, add_invalid_trims) ==
    \/ \E k \in DOMAIN invalid_trims : invalid_trims[k] = t
    \/ \E k \in DOMAIN add_invalid_trims : add_invalid_trims[k] = t

\* t holds a red-flag word somewhere, inside a longer word or not.
HoldsRedFlag(t) ==
    \E k \in DOMAIN words_to_check :
        \E i \in 1..(Len(t) - Len(words_to_check[k]) + 1) :
            SubSeq(t, i, i + Len(words_to_check[k]) - 1) = words_to_check[k]

Cleaned == fn.step = "cleaned"

\* The lowercased input of clean_trim.
Lowered == str_lower(py_str(fn.x))

\* The markers of the truncation that occur in s.
MarkersIn(s) == {k \in DOMAIN words : str_contains(s, words[k])}

\* The text of s before the first occurrence of the marker w.
TextBefore(s, w) == SubSeq(s, 1, str_find(s, w) - 1)

\* What clean_trim returns when its truncation leaves the text t.
CleanedFrom(t) ==
    clean_strip(clean_remove_words(clean_translate(t), fn.add_unwanted_words))

\* C24: the truncation of clean_trim uses exactly one marker, the first
\* marker of the ordered list that occurs anywhere in the lowercased input;
\* clean_trim goes on with the text before the first occurrence of that
\* marker, even if a marker listed later occurs earlier in the string;
\* when no marker occurs it goes on with the whole text.
C24_FirstListedMarker ==
    Cleaned =>
        IF MarkersIn(Lowered) = {}
        THEN fn.cleaned.value = CleanedFrom(Lowered)
        ELSE \E k \in MarkersIn(Lowered) :
                /\ \A j \in MarkersIn(Lowered) : k <= j
                /\ fn.cleaned.value = CleanedFrom(TextBefore(Lowered, words[k]))

\* clean_trim has cut a text at the marker ',' where the marker '(', which
\* is listed later, occurs earlier in the string; cutting at '(' would
\* have given another result.
C24_Witness ==
    /\ Cleaned
    /\ fn.x = Str("(2019) nav,")
    /\ MarkersIn(Lowered) = {2, 8}
    /\ str_find(Lowered, "(") < str_find(Lowered, ",")
    /\ fn.cleaned.value = CleanedFrom("(2019) nav")
    /\ fn.cleaned.value # CleanedFrom(TextBefore(Lowered, "("))

\* The text that the translation of clean_trim is given for the truncated
\* text t: listed characters are blanks, the quote is 'ft', blanks are single.
BeforeTranslation(t) ==
    str_strip(remove_extra_spaces(
        str_replace(replace_each(t, characters_to_remove, " ", 1), "'", "ft")))

\* The keys of trim_translation_mapping that match s at place i.
KeysMatching(s, i) ==
    {k \in DOMAIN trim_translation_keys :
        /\ i + Len(trim_translation_keys[k]) - 1 <= Len(s)
        /\ SubSeq(s, i, i + Len(trim_translation_keys[k]) - 1) = trim_translation_keys[k]}

\* One pass over s from place i on: where keys match, the key declared
\* first is replaced and the pass goes on behind it; any other character
\* is kept.
RECURSIVE SinglePass(_, _)
SinglePass(s, i) ==
    IF i > Len(s) THEN ""
    ELSE IF KeysMatching(s, i) = {} THEN Ch(s, i) \o SinglePass(s, i + 1)
    ELSE LET key == trim_translation_keys[Min(KeysMatching(s, i))]
         IN  dict_get(trim_translation_mapping, key) \o SinglePass(s, i + Len(key))

\* C25: the translation of clean_trim is a single pass from left to right;
\* at a place where several keys of the dictionary match, the key declared
\* first wins, and replaced text is not translated again: 'hybride
\* rechargeable' becomes 'plug-in hybrid' (not 'hybrid rechargeable') and
\* 'électriques' becomes 'electric' (not 'electrics').
C25_SinglePassTranslation ==
    Cleaned =>
        LET before == BeforeTranslation(clean_truncate(fn.x))
        IN  /\ clean_translate(clean_truncate(fn.x)) = SinglePass(before, 1)
            /\ fn.cleaned.value =
                  clean_strip(clean_remove_words(SinglePass(before, 1),
                                                 fn.add_unwanted_words))
            /\ fn.x = Str("hybride rechargeable") => fn.cleaned.value = "plug-in hybrid"
            /\ fn.x = Str("electriques") =>
                  /\ clean_translate(clean_truncate(fn.x)) = "electric"
                  /\ fn.cleaned.value = CleanedFrom("electric")
                  /\ fn.cleaned.value # CleanedFrom("electrics")
                  /\ clean_translate(clean_truncate(Str("électriques"))) = "electric"
                  /\ clean_trim(Str("électriques"), fn.add_unwanted_words)
                        = CleanedFrom("electric")
            /\ fn.x = Str("prem plus line") =>
                  /\ clean_translate(clean_truncate(fn.x)) = "premium plus line"
                  /\ str_contains("premium plus line", "s line")
                  /\ dict_has(trim_translation_mapping, "s line")

\* clean_trim has translated 'hybride rechargeable', where the key
\* 'hybride' matches too.
C25_Witness ==
    /\ Cleaned
    /\ fn.x = Str("hybride rechargeable")
    /\ Cardinality(KeysMatching(Lowered, 1)) = 2
    /\ fn.cleaned.value = "plug-in hybrid"

\* s without the suffix, when s ends with it.
RemoveSuffix(s, suffix) ==
    IF EndsWith(s, suffix) THEN SubSeq(s, 1, Len(s) - Len(suffix)) ELSE s

\* The closing strip as a removal of the suffixes '-', '.', ' w', ' w-'
\* and ' &', each once and in that order.
SuffixStrip(s) ==
    RemoveSuffix(RemoveSuffix(RemoveSuffix(RemoveSuffix(RemoveSuffix(
        s, "-"), "."), " w"), " w-"), " &")

\* C26: the final strip of clean_trim removes from the end of the string
\* only a trailing '-', '.', ' w', ' w-' or ' &' suffix, each considered
\* once in that order, and leaves every other trailing text unchanged: a
\* string whose last word ends in the letter 'w' keeps that word whole.
C26_SuffixStrip ==
    Cleaned =>
        LET deduped == clean_remove_words(clean_translate(clean_truncate(fn.x)),
                                          fn.add_unwanted_words)
        IN  fn.cleaned.value = str_strip(remove_extra_spaces(SuffixStrip(deduped)))
(***************************************************************************)
(* Properties of process_trim_by_make.                                      *)
(***************************************************************************)
\* The make of the first call and of the second one.
FirstMake == make_calls[call].make
OtherMake == make_calls[fn.other].make

\* C16: a bmw row with the raw trim 'M-Sport xDrive' (lowercased by
\* process_trim before the call) leaves the bmw call of
\* process_trim_by_make with the trim 'm sport', not 'unknown'.
C16_Example3 ==
    (pc = "by_make" /\ fn.step = "first" /\ FirstMake = "bmw") =>
        \A r \in Rows(df) :
            (given[r].make = "bmw" /\ given[r].trim = Str("m-sport xdrive"))
            => df[r].trim = Str("m sport")

\* The bmw call has processed such a row.
C16_Witness ==
    /\ pc = "by_make"
    /\ fn.step = "first"
    /\ FirstMake = "bmw"
    /\ \E r \in Rows(df) :
          /\ given[r].make = "bmw"
          /\ given[r].trim = Str("m-sport xdrive")
          /\ df[r].trim = Str("m sport")

\* The table `after` differs from `before` only in the trim of rows of the make.
OnlyTrimsOf(make, before, after) ==
    /\ Rows(after) = Rows(before)
    /\ \A r \in Rows(before) :
          /\ DOMAIN after[r] = DOMAIN before[r]
          /\ \A col \in DOMAIN before[r] \ {"trim"} : after[r][col] = before[r][col]
          /\ before[r].make # make => after[r] = before[r]

\* C20: process_trim_by_make for a make changes nothing but the trim of
\* the rows of that make; with no row of the make it returns the table it
\* was given.
C20_Frame ==
    /\ (pc = "by_make" /\ fn.step \in {"first", "second"}) =>
          /\ OnlyTrimsOf(FirstMake, given, fn.first)
          /\ mask(given, FirstMake) = {} => fn.first = given
    /\ (pc = "by_make" /\ fn.step = "second") =>
          /\ OnlyTrimsOf(OtherMake, fn.first, df)
          /\ mask(fn.first, OtherMake) = {} => df = fn.first

\* A call has changed a trim of its make and left alone a row of another
\* make whose trim its cleaning would have changed.
C20_Witness ==
    /\ pc = "by_make"
    /\ fn.step = "first"
    /\ \E r \in Rows(df) : given[r].make = FirstMake /\ df[r].trim # given[r].trim
    /\ \E r \in Rows(df) :
          /\ given[r].make # FirstMake
          /\ df[r] = given[r]
          /\ clean_trim(given[r].trim, <<>>) # given[r].trim.v

\* The tables that the call k1 and then the call k2 may return for d.
TwoCalls(d, k1, k2) ==
    UNION {process_trim_by_make(t, make_calls[k2]) :
             t \in process_trim_by_make(d, make_calls[k1])}

\* C19: the calls for two distinct makes give the same table in either
\* order: the table after the first and then the other call is a table the
\* other call and then the first gives, and each row of it is as the call
\* for its make alone leaves it.
C19_OrderIndependent ==
    (pc = "by_make" /\ fn.step = "second") =>
        /\ df \in TwoCalls(given, fn.other, call)
        /\ \E ta \in process_trim_by_make(given, make_calls[call]),
              tb \in process_trim_by_make(given, make_calls[fn.other]) :
              \A r \in Rows(df) :
                  df[r] = IF given[r].make = FirstMake THEN ta[r]
                          ELSE IF given[r].make = OtherMake THEN tb[r]
                          ELSE given[r]

\* Both calls have changed rows of their make, and the first one has
\* backfilled a row from the allowlist it derived from its own rows.
C19_Witness ==
    /\ pc = "by_make"
    /\ fn.step = "second"
    /\ \E r \in Rows(df) :
          /\ given[r].make = FirstMake
          /\ given[r].trim = Str("slt sport slt extra")
          /\ df[r].trim = Str("slt")
    /\ \E r \in Rows(df) : given[r].make = OtherMake /\ df[r].trim # given[r].trim


(***************************************************************************)
(* Properties of the backfill of process_trim_by_make.                      *)
(***************************************************************************)
\* The table d after the clean, correct and validate steps of the call c.
ValidatedBy(d, c) ==
    validate_stage(
        correct_stage(clean_stage(d, c.make, c.add_unwanted_words),
                      c.make, c.trim_correction_mapping),
        c.make, c.add_invalid_trims)

\* The call c, given `before`, returns `after`: a row of the make that is
\* 'unknown' after validation has the first entry of the literal list that
\* occurs in its trim_backup, or 'unknown' when none does; every other row
\* is as validation left it.
LiteralBackfill(c, before, after) ==
    LET v == ValidatedBy(before, c)
        list == c.valid_trims.list
    IN  \A r \in Rows(after) :
            IF /\ v[r].make = c.make
               /\ v[r].trim = Str("unknown")
               /\ c.valid_trims.kind = "list"
            THEN LET hits == {k \in DOMAIN list :
                                str_contains(v[r].trim_backup.v, list[k])}
                 IN  IF hits = {} THEN after[r] = v[r]
                     ELSE \E k \in hits :
                             /\ \A j \in hits : k <= j
                             /\ after[r] = [v[r] EXCEPT !.trim = Str(list[k])]
            ELSE after[r] = v[r]

\* C21: with a literal allowlist a row of the make whose trim is 'unknown'
\* after validation gets the first allowlist entry, in list order, that is
\* a substring of its trim_backup, and stays 'unknown' when no entry is; a
\* row whose trim is not 'unknown' is not changed by the backfill; with the
\* policy None no row is changed.
C21_LiteralBackfill ==
    /\ (pc = "by_make" /\ fn.step \in {"first", "second"}
           /\ make_calls[call].valid_trims.kind # "auto")
          => LiteralBackfill(make_calls[call], given, fn.first)
    /\ (pc = "by_make" /\ fn.step = "second"
           /\ make_calls[fn.other].valid_trims.kind # "auto")
          => LiteralBackfill(make_calls[fn.other], fn.first, df)

\* The ford call has backfilled 'se', the first entry of its list in the
\* trim_backup, where the entry 'lariat' is longer and comes earlier in
\* the text; the toyota call (policy None) has left an 'unknown' row as is.
C21_Witness ==
    /\ pc = "by_make"
    /\ fn.step = "second"
    /\ FirstMake = "ford"
    /\ OtherMake = "toyota"
    /\ \E r \in Rows(df) :
          /\ df[r].make = "ford"
          /\ df[r].trim_backup = Str("lariat se extra")
          /\ df[r].trim = Str("se")
    /\ \E r \in Rows(df) :
          /\ df[r].make = "toyota"
          /\ df[r].trim_backup = Str("sr5 extra")
          /\ df[r].trim = Str("unknown")

\* The values the "auto" allowlist of the call c is to hold for the
\* validated table v.
AutoAllowlist(v, c) ==
    {t \in {v[r].trim.v : r \in Rows(v)} :
        /\ Cardinality({r \in Rows(v) : v[r].make = c.make /\ v[r].trim = Str(t)})
              >= c.unknown_threshold
        /\ t # "unknown"
        /\ Len(t) > 2}

\* The call c with the policy "auto", given `before`, returns `after`.
AutoBackfill(c, before, after) ==
    LET v == ValidatedBy(before, c)
        allow == AutoAllowlist(v, c)
    IN  /\ \A l \in backfill_lists(v, c) :
              /\ {l[k] : k \in DOMAIN l} = allow
              /\ Len(l) = Cardinality(allow)
        /\ \A r \in Rows(after) :
              IF v[r].make = c.make /\ v[r].trim = Str("unknown")
              THEN LET cands == {t \in allow : str_contains(v[r].trim_backup.v, t)}
                   IN  IF cands = {} THEN after[r] = v[r]
                       ELSE \E t \in cands :
                               /\ \A u \in cands : Len(t) >= Len(u)
                               /\ after[r] = [v[r] EXCEPT !.trim = Str(t)]
              ELSE after[r] = v[r]

\* C22: with the policy "auto" the allowlist is computed once from the
\* trims of the rows of the make after clean, correct and validate and
\* before any backfill; it holds exactly the values with count >=
\* unknown_threshold that are not 'unknown' and are longer than 2
\* characters; a backfilled row gets an allowlist entry that is a substring
\* of its trim_backup and at least as long as every other such entry.
C22_AutoBackfill ==
    /\ (pc = "by_make" /\ fn.step \in {"first", "second"}
           /\ make_calls[call].valid_trims.kind = "auto")
          => AutoBackfill(make_calls[call], given, fn.first)
    /\ (pc = "by_make" /\ fn.step = "second"
           /\ make_calls[fn.other].valid_trims.kind = "auto")
          => AutoBackfill(make_calls[fn.other], fn.first, df)

\* The ram call has derived an allowlist that holds 'slt' and 'slt sport'
\* and has backfilled the longer one into a row whose trim_backup holds both.
C22_Witness ==
    /\ pc = "by_make"
    /\ fn.step = "first"
    /\ FirstMake = "ram"
    /\ {"slt", "slt sport"}
          \subseteq AutoAllowlist(ValidatedBy(given, make_calls[call]), make_calls[call])
    /\ \E r \in Rows(df) :
          /\ df[r].trim_backup = Str("slt sport slt extra")
          /\ df[r].trim = Str("slt sport")

(***************************************************************************)
(* Properties of the arguments process_trim passes to its per-make calls.   *)
(***************************************************************************)
\* The declarations of the key in the dict literal, by place.
Declarations(mapping, key) == {k \in DOMAIN mapping : mapping[k][1] = key}

\* What the correction is to make of a cleaned trim: the value of the
\* last declaration of it as a key, or the trim itself.
LastDeclared(mapping, cleaned) ==
    IF Declarations(mapping, cleaned) = {} THEN cleaned
    ELSE mapping[Max(Declarations(mapping, cleaned))][2]

\* C27: when a correction map declares the same key more than once, only
\* the last-declared replacement is applied: a mercedes-benz trim that
\* cleans to 'amg c 43' is corrected to 'amg c43' and one that cleans to
\* 'amg glc 43' to 'amg glc43'; the correction is an exact match of the
\* whole cleaned trim and is applied once, not transitively.
C27_LastDeclaredWins ==
    (pc = "by_make" /\ fn.step = "first") =>
        LET c == make_calls[call]
        IN  \A r \in Rows(df) :
                given[r].make = c.make =>
                    LET cleaned == clean_trim(given[r].trim, c.add_unwanted_words)
                        corrected == LastDeclared(c.trim_correction_mapping, cleaned)
                        v == validate_trim(Str(corrected), c.add_invalid_trims).value
                    IN  /\ v # "unknown" => df[r].trim = Str(v)
                        /\ (c.make = "mercedes-benz" /\ cleaned = "amg c 43")
                              => df[r].trim = Str("amg c43")
                        /\ (c.make = "mercedes-benz" /\ cleaned = "amg glc 43")
                              => df[r].trim = Str("amg glc43")

\* The mercedes-benz call has corrected a trim that cleans to 'amg c 43',
\* a key its map declares twice with two values.
C27_Witness ==
    /\ pc = "by_make"
    /\ fn.step = "first"
    /\ FirstMake = "mercedes-benz"
    /\ Cardinality({mercedes_trim_correction_mapping[k][2] :
                      k \in Declarations(mercedes_trim_correction_mapping, "amg c 43")}) = 2
    /\ \E r \in Rows(df) :
          /\ given[r].trim = Str("amg c 43 4matic")
          /\ clean_trim(given[r].trim, words_to_remove_mercedes) = "amg c 43"
          /\ df[r].trim = Str("amg c43")

\* C28: every per-make call of process_trim gets only arguments written
\* for its make: no call passes a correction map, an extra stopword list or
\* an extra invalid list that an earlier call passed for another make (the
\* chevrolet call does not pass the stopwords of the porsche block).
C28_OwnConfiguration ==
    (pc = "makes" /\ call \in DOMAIN make_calls) =>
        \A j \in 1..(call - 1) :
            make_calls[j].make # make_calls[call].make =>
                /\ make_calls[call].add_unwanted_words # <<>>
                      => make_calls[call].add_unwanted_words # make_calls[j].add_unwanted_words
                /\ make_calls[call].trim_correction_mapping # <<>>
                      => make_calls[call].trim_correction_mapping
                            # make_calls[j].trim_correction_mapping
                /\ make_calls[call].add_invalid_trims # <<>>
                      => make_calls[call].add_invalid_trims # make_calls[j].add_invalid_trims

\* C29: every replacement value of every per-make correction map is
\* accepted by validate_trim with the extra invalid list of that make: a
\* correction never turns a trim into a value that the validation after it
\* makes 'unknown' (the dodge and hyundai target 'canada value package'
\* comes through the validation).
C29_TargetsAccepted ==
    (pc = "by_make" /\ fn.step = "first") =>
        LET c == make_calls[call]
        IN  /\ \A k \in DOMAIN c.trim_correction_mapping :
                  validate_trim(Str(c.trim_correction_mapping[k][2]),
                                c.add_invalid_trims).value # "unknown"
            /\ \A r \in Rows(df) :
                  given[r].make = c.make =>
                      LET cleaned == clean_trim(given[r].trim, c.add_unwanted_words)
                          corrected == LastDeclared(c.trim_correction_mapping, cleaned)
                      IN  corrected # cleaned =>
                              ValidatedBy(given, c)[r].trim # Str("unknown")

(***************************************************************************)
(* Properties of find_outliers_by_model.                                    *)
(***************************************************************************)
\* The rows of the table that find_outliers_by_model looks at: those of
\* the model, without the expensive trims.
Considered ==
    {df[i] : i \in {j \in DOMAIN df :
                      df[j].model = fn.model /\ ~InList(df[j].trim, expensive_trims)}}

\* The thresholds of the year of the row.
ThresholdsOf(row) ==
    year_thresholds(
        SelectSeq(df, LAMBDA x : x \in Considered /\ x.year = row.year),
        iqr_multiplier_default_x2)

BelowLower(row) == 8 * row.price < ThresholdsOf(row).lower_x8
AboveUpper(row) == 8 * row.price > ThresholdsOf(row).upper_x8

\* The rows find_outliers_by_model has returned.
Outliers == {fn.outliers[i] : i \in DOMAIN fn.outliers}

\* C30: find_outliers_by_model with only_lower_outliers=True returns only
\* rows priced below the lower threshold of their year, never a row priced
\* above the upper threshold; with only_lower_outliers=False it returns the
\* rows outside either threshold.
C30_OutlierSides ==
    (pc = "outliers" /\ fn.step = "returned") =>
        IF fn.only_lower_outliers
        THEN Outliers \subseteq {row \in Considered : BelowLower(row)}
        ELSE Outliers = {row \in Considered : BelowLower(row) \/ AboveUpper(row)}
====
